---- MODULE Spec2Model ----
(***************************************************************************)
(* Model of the ArcGIS map ipywidget view (arcgis-map-ipywidget-view.js)   *)
(* and of its layer type dispatcher (layer-utils/infer-no-type-layer.js).  *)
(* The view object is the record widget; the functions of the view are     *)
(* operators from one such record to the next, so that a callback that     *)
(* calls several of them is their composition.                             *)
(*                                                                         *)
(* JavaScript strings that the code compares or case-folds are sequences   *)
(* of one-character strings, so that toLowerCase() and == are computed     *)
(* character by character.  Promises are records with a pc that moves at   *)
(* each asynchronous boundary (module load, portal load, layer load,       *)
(* renderer inference).                                                    *)
(***************************************************************************)
EXTENDS Integers, Sequences, FiniteSets

VARIABLES
    started,            \* render() has registered the handlers and called update_widget_from_model
    model,              \* the widget model's attributes used by the view
    _portalToken,       \* this._portalToken
    globalTokenLookup,  \* the module-level token table, keyed by widget uuid
    esriConfig,         \* esri/config: portalUrl and request.trustedServers
    IdentityManager,    \* esri/identity/IdentityManager: registered servers and tokens
    portals,            \* every Portal object constructed so far
    _portal,            \* this._portal: index into portals, NoPortal while '_portal' is not in this
    calls,              \* every authenticate_to_portal() promise created so far
    requests,           \* every inferNoTypeLayer() promise created so far
    widget,             \* the view: draw state attributes, esri views, error box, pending loads
    events              \* how many store mutations, surface events and failed loads have happened

authVars == <<started, model, _portalToken, globalTokenLookup, esriConfig,
              IdentityManager, portals, _portal, calls>>
layerVars == <<requests>>
viewVars == <<widget, events>>
vars == <<started, model, _portalToken, globalTokenLookup, esriConfig,
          IdentityManager, portals, _portal, calls, requests, widget, events>>

----------------------------------------------------------------------------
(* Bounds of the model *)

\* authenticate_to_portal() promises created in one behaviour
MaxCalls == 3
\* inferNoTypeLayer() promises created in one behaviour of SpecLayers
MaxRequests == 2
\* the overlays an image overlay layer starts with
MaxOverlays == 3
\* attribute changes the Python side makes after the initial load
MaxSets == 2
\* pans, zooms and time slider moves the user makes
MaxMoves == 2
\* module loads that fail
MaxFailures == 1

----------------------------------------------------------------------------
(* JavaScript strings *)


\* the letters String.prototype.toLowerCase() maps to one another
Letters ==
    [upper |-> <<"A", "B", "C", "D", "E", "F", "G", "H", "I", "J", "K", "L", "M",
               "N", "O", "P", "Q", "R", "S", "T", "U", "V", "W", "X", "Y", "Z">>,
     lower |-> <<"a", "b", "c", "d", "e", "f", "g", "h", "i", "j", "k", "l", "m",
               "n", "o", "p", "q", "r", "s", "t", "u", "v", "w", "x", "y", "z">>]

\* one character of String.prototype.toLowerCase()
LowerChar(ch) ==
    IF \E i \in DOMAIN Letters.upper : Letters.upper[i] = ch
    THEN Letters.lower[CHOOSE i \in DOMAIN Letters.upper : Letters.upper[i] = ch]
    ELSE ch

\* String.prototype.toLowerCase()
ToLowerCase(s) == [i \in DOMAIN s |-> LowerChar(s[i])]

----------------------------------------------------------------------------
(* The view: draw state attributes, the two esri views and the error box *)


\* a center: null, the empty object {} of the model defaults, a plain object
\* with x and y, or an esri Point
PointOf(class, x, y) == [class |-> class, x |-> x, y |-> y]

\* view.center = [long, lat]: the view makes the list a Point of its spatial
\* reference; the projection is taken linear here
FromLongLat(c) == PointOf("Point", 111 * c[1], 111 * c[2])

\* an extent: null, {}, a plain object with xmin, or an esri Extent
ExtentOf(class, xmin, xmax) == [class |-> class, xmin |-> xmin, xmax |-> xmax]
\* the view autocasts what it is given to an esri Extent
Extent(e) == ExtentOf("Extent", e.xmin, e.xmax)

\* JSON.parse(JSON.stringify(g)): the class of an esri geometry is lost
JSONClone(g) ==
    IF g.class \in {"Point", "Extent"} THEN [g EXCEPT !.class = "Object"] ELSE g

\* 'x' in _center && 'y' in _center
HasXY(p) == p.class \in {"Object", "Point"}

\* projection.project(extent, SpatialReference.WebMercator); the extents of
\* this model are Web Mercator extents already
Project(e) == Extent(e)

\* this.camera of a SceneView that has none yet
NoCamera == [exists |-> FALSE, heading |-> 0, tilt |-> 0]

\* new MapView(...) / new SceneView(...): no derived value is valid before the
\* view is ready.  map is "this" while the view displays this.map, "old" while
\* it displays the map this.map was before a web map or a web scene replaced
\* it, and "null"; ui holds the widgets added to the corners of the view
NewView ==
    [ready |-> FALSE, zoom |-> -1, scale |-> 0, rotation |-> 0, camera |-> NoCamera,
     center |-> PointOf("null", 0, 0), extent |-> ExtentOf("null", 0, 0),
     snapToZoom |-> TRUE, pointerMoveHandler |-> FALSE, stationaryWatch |-> FALSE, cameraWatch |-> <<>>,
     clickHandler |-> FALSE, map |-> "null", container |-> FALSE, ui |-> {},
     centerWatch |-> FALSE]

\* the message literals of the view, as sequences of pieces so that
\* msg += " See the browser console for more info." is Append; NoMessage is
\* undefined, "" or an empty textContent
Message ==
    [NoMessage |-> <<>>,
     ConsoleHint |-> " See the browser console for more info.",
     UnhandledError |-> <<"Unhandled Error!", " See the browser console for more info.">>,
     multiple_messages_info |->
         <<"Multiple messages attempted to display. See browser console to view all messages">>,
     ErrFirstLoadAuth |-> <<"Error while authenticating to portal on first load.">>,
     ErrBasemap |-> <<"Error while changing basemap.">>,
     ErrHeading |-> <<"Error while modifying heading">>,
     ErrExtent |-> <<"Error while modifying extent.">>,
     ErrCenterLongLat |-> <<"Error while modifying center_long_lat.">>,
     ErrCenter |-> <<"Error while modifying center">>,
     ErrWebmap |-> <<"Error on loading webmap from portal">>,
     ErrWebscene |-> <<"Error on loading webscene from portal">>,
     ErrTimeInfo |-> <<"Error while changing the time info">>,
     ErrUpdateLayer |-> <<"Could not update layer. ">>,
     ErrSaveWebscene |-> <<"Error on saving the web scene">>,
     ErrScreenshot |-> <<"Could not take screenshot.">>,
     ErrDrawShape |-> <<"Error on drawing interactive shape">>,
     ErrNotJupyterLab |-> <<"Can only move to new window in a ", "JupyterLab env">>,
     ErrReadonlyWebmap |-> <<"Error updating readonly webmap json.">>,
     ErrWebsceneItem |-> <<"Error on loading webscene item">>,
     ErrWebscenePortal |-> <<"Error on loading portal for webscene">>,
     ErrRemoveLayer |-> <<"Error removing layer">>,
     ErrGraphics |-> <<"Error on updating graphics.">>,
     ErrOverlayType |-> <<"Error getting ImageOverlayLayer type:">>,
     ErrOverlay |-> <<"Error on overlaying image.">>,
     ErrTimeMode |-> <<"Error while updating time mode">>,
     ErrStartTime |-> <<"Error while changing ", "start_time">>,
     ErrEndTime |-> <<"Error while changing ", "end_time">>,
     WarnOldJSAPI |->
         <<"Warning: the ArcGIS API for JavaScript being loaded at ", "https://cdn/",
           " does not appear to be >=", "4.19", ". Widget may not function properly.">>,
     WarnNoJSAPIVersion |->
         <<"Warning: Could not infer version of any loaded ArcGIS API for JavaScript. ",
           "Widget may not function properly.">>]

\* a line _displayErrorBox writes to the browser console
MessageBoxLine(text) == <<"*****MESSAGE_BOX: ">> \o text

\* _displayErrorBox that leaves an open message in place
_displayErrorBox_KeepsOpenMessage(w, msg, browser_console_message) ==
    LET shown == IF msg = Message.NoMessage THEN Message.UnhandledError
                 ELSE IF browser_console_message THEN Append(msg, Message.ConsoleHint)
                 ELSE msg
    IN  IF w.errorTextBox = Message.NoMessage
        THEN [w EXCEPT !.errorTextBox = shown]
        ELSE [w EXCEPT !.console = @ \cup {MessageBoxLine(shown)}]

\* _displayErrorBox that writes the open message to the console whatever it is
_displayErrorBox_LogsNotice(w, msg, browser_console_message) ==
    LET shown == IF msg = Message.NoMessage THEN Message.UnhandledError
                 ELSE IF browser_console_message THEN Append(msg, Message.ConsoleHint)
                 ELSE msg
    IN  IF w.errorTextBox = Message.NoMessage
        THEN [w EXCEPT !.errorTextBox = shown]
        ELSE [w EXCEPT
                !.console = @ \cup {MessageBoxLine(w.errorTextBox), MessageBoxLine(shown)},
                !.errorTextBox = Message.multiple_messages_info]

\* _displayErrorBox(msg, browser_console_message); displayPureJSErrorBox puts
\* the text into the message area
_displayErrorBox(w, msg, browser_console_message) ==
    LET shown == IF msg = Message.NoMessage THEN Message.UnhandledError
                 ELSE IF browser_console_message THEN Append(msg, Message.ConsoleHint)
                 ELSE msg
    IN  IF w.errorTextBox = Message.NoMessage
        THEN [w EXCEPT !.errorTextBox = shown]
        ELSE [w EXCEPT
                !.console = @ \cup (IF w.errorTextBox # Message.multiple_messages_info
                                    THEN {MessageBoxLine(w.errorTextBox)} ELSE {})
                              \cup {MessageBoxLine(shown)},
                !.errorTextBox = Message.multiple_messages_info]

\* the change handlers render() registers: attribute |-> handler
HandlerTable ==
    [mode |-> "mode_changed",
     _basemap |-> "basemap_changed",
     _zoom |-> "zoom_changed",
     _scale |-> "scale_changed",
     _snap_to_zoom |-> "snap_to_zoom_changed",
     _rotation |-> "rotation_changed",
     _link_writeonly_rotation |-> "link_rotation_changed",
     _heading |-> "heading_changed",
     _link_writeonly_heading |-> "link_heading_changed",
     _tilt |-> "tilt_changed",
     _link_writeonly_tilt |-> "link_tilt_changed",
     _extent |-> "extent_changed",
     _link_writeonly_extent |-> "link_extent_changed",
     _center |-> "center_changed",
     _center_long_lat |-> "center_long_lat_changed",
     _func_chains |-> "func_chains_changed",
     _add_this_notype_layer |-> "add_this_notype_layer_changed",
     _layers_to_remove |-> "layers_to_remove_changed",
     _add_this_graphic |-> "graphics_changed",
     _webmap |-> "webmap_changed",
     _webscene |-> "webscene_changed",
     _trigger_webscene_save_to_this_portal_id |-> "save_webscene",
     _trigger_screenshot_with_args |-> "_trigger_screenshot_with_args_changed",
     _overlay_this_image |-> "overlay_image_changed",
     _image_overlays_to_remove |-> "image_overlays_to_remove_changed",
     time_slider |-> "time_slider_prop_changed",
     time_mode |-> "time_mode_changed",
     _time_info |-> "time_info_changed",
     _writeonly_start_time |-> "start_time_changed",
     _writeonly_end_time |-> "end_time_changed",
     _portal_token |-> "portal_token_changed",
     _custom_msg |-> "custom_msg_changed",
     hide_mode_switch |-> "hide_mode_switch_changed",
     _trigger_interactive_draw_mode_for |-> "interactive_draw_shape",
     _trigger_new_jlab_window_with_args |-> "trigger_jlab_window_changed",
     _js_cdn_override |-> "js_cdn_changed",
     legend |-> "legend_prop_changed",
     _trigger_print_js_debug_info |-> "trigger_print_js_debug_info_changed"]

\* the attributes of this.model the view reads and writes, at their defaults
\* but for mode, the CDN override and the layers to draw on load; an object
\* argument ({} by default) is the set of its keys.  A web map, a web scene, a
\* graphic and an image are objects too: keys is the set of their keys, layers
\* the ids of the layers the map comes with, id what names the graphic or the
\* image
AttrDefaults(mode, cdn, layers) ==
    [mode |-> mode,
     _basemap |-> "topo",
     _zoom |-> -1, _readonly_zoom |-> -1,
     _scale |-> -1, _readonly_scale |-> -1,
     _snap_to_zoom |-> TRUE,
     _rotation |-> 0, _readonly_rotation |-> 0, _link_writeonly_rotation |-> 0,
     _heading |-> 0, _readonly_heading |-> 0, _link_writeonly_heading |-> 0,
     _tilt |-> 0, _readonly_tilt |-> 0, _link_writeonly_tilt |-> 0,
     tilt |-> <<>>,
     _extent |-> ExtentOf("{}", 0, 0), _readonly_extent |-> ExtentOf("{}", 0, 0),
     _link_writeonly_extent |-> ExtentOf("{}", 0, 0),
     _center |-> PointOf("{}", 0, 0), _readonly_center |-> PointOf("{}", 0, 0),
     _center_long_lat |-> <<>>,
     _draw_these_notype_layers_on_widget_load |-> layers,
     _layers_to_remove |-> <<>>,
     _add_this_graphic |-> [keys |-> {}, id |-> ""],
     _webmap |-> [keys |-> {}, layers |-> <<>>],
     _webscene |-> [keys |-> {}, layers |-> <<>>],
     _readonly_webmap_from_js |-> [keys |-> {}, layers |-> <<>>, ground |-> "", basemap |-> ""],
     _overlay_this_image |-> [keys |-> {}, id |-> ""],
     _image_overlays_to_remove |-> <<>>,
     time_slider |-> FALSE, time_mode |-> "time-window",
     _writeonly_start_time |-> "", _writeonly_end_time |-> "",
     legend |-> FALSE,
     _readonly_start_time |-> "", _readonly_end_time |-> "",
     _custom_msg |-> Message.NoMessage,
     _js_cdn_override |-> cdn,
     _trigger_webscene_save_to_this_portal_id |-> "",
     _trigger_screenshot_with_args |-> {},
     _preview_screenshot_callback_resp |-> "",
     _cell_output_screenshot_callback_resp |-> "",
     _file_output_screenshot_callback_resp |-> "",
     _trigger_interactive_draw_mode_for |-> "",
     _trigger_new_jlab_window_with_args |-> {},
     ready |-> FALSE]

\* the value of a property that was never assigned
Undefined == "undefined"

\* a map made without the layers it is given
NewMap_NoLayers(class, ground, basemap, layers) ==
    [class |-> class, ground |-> ground, basemap |-> basemap, layers |-> <<>>,
     listener |-> FALSE]

\* a map object: a WebMap, a WebScene, or none; listener tells whether a
\* handler of the 'change' event of its allLayers is registered
NewMap(class, ground, basemap, layers) ==
    [class |-> class, ground |-> ground, basemap |-> basemap, layers |-> layers,
     listener |-> FALSE]

\* this.map before _instantiate_esri_components, and a map no view displays

\* the view object when render() is entered
NewWidget(mode, cdn, layers) ==
    [attrs |-> AttrDefaults(mode, cdn, layers),
     unsaved |-> {},
     handlers |-> <<>>,
     _MapView |-> NewView,
     _SceneView |-> NewView,
     activeView |-> "none",
     map |-> NewMap("none", "", "", <<>>),
     old |-> NewMap("none", "", "", <<>>),
     _time_slider |-> [view |-> "none", mode |-> "time-window", values |-> <<>>],
     _legend |-> [view |-> "none"],
     loads |-> {},
     errorTextBox |-> Message.NoMessage,
     console |-> {},
     renderFailed |-> FALSE,
     loadSteps |-> <<>>,
     loadPromise |-> "none",
     added |-> {},
     unhandled |-> {},
     httpGet |-> "none",
     corsEnabledServers |-> {},
     JupyterTarget |-> "notebook",
     inNewWindow |-> FALSE,
     promises |-> 0,
     invoked |-> [_trigger_webscene_save_to_this_portal_id |-> 0,
                  _trigger_screenshot_with_args |-> 0,
                  _trigger_interactive_draw_mode_for |-> 0,
                  _trigger_new_jlab_window_with_args |-> 0],
     sketches |-> <<>>,
     sent |-> <<>>,
     sibling |-> [started |-> FALSE, first |-> FALSE, _portalToken |-> Undefined]]


\* save_changes that commits nothing
save_changes_Skipped(w) == w

\* this.model.save_changes()
save_changes(w) == [w EXCEPT !.unsaved = {}]

\* this.model.set(attr, v) from the view: the value waits for save_changes
model_set(w, attr, v) ==
    IF w.attrs[attr] = v THEN w
    ELSE [w EXCEPT !.attrs[attr] = v, !.unsaved = @ \cup {attr}]

\* a pending esriLoader.loadModules(...).then(...).catch(...) started by fn,
\* with the arguments the callbacks close over; two pending loads of the same
\* function with the same arguments have the same effect and are one element
StartLoad(w, fn, angle, extent) ==
    [w EXCEPT !.loads = @ \cup {[fn |-> fn, angle |-> angle, extent |-> extent,
                                 id |-> 0, sendTo |-> {}, args |-> <<>>]}]

\* a pending promise of a trigger handler: every call has its own callbacks,
\* which run once each
StartOnce(w, fn, sendTo) ==
    [w EXCEPT !.loads = @ \cup {[fn |-> fn, angle |-> 0, extent |-> ExtentOf("null", 0, 0),
                                 id |-> w.promises + 1, sendTo |-> sendTo,
                                 args |-> <<>>]},
              !.promises = @ + 1]

\* a pending promise of fn(args...): the callbacks close over the arguments
StartWith(w, fn, args) ==
    [w EXCEPT !.loads = @ \cup {[fn |-> fn, angle |-> 0, extent |-> ExtentOf("null", 0, 0),
                                 id |-> w.promises + 1, sendTo |-> {}, args |-> args]},
              !.promises = @ + 1]

\* scale >= 1 replaced by scale >= 0
ScaleIsSet_FromZero(scale) == scale >= 0
\* if(scale >= 1) in scale_changed
ScaleIsSet(scale) == scale >= 1

zoom_changed(w) ==
    LET zoom == w.attrs._zoom
        w1 == model_set(w, "_readonly_zoom", zoom)
        w2 == IF zoom >= 0 THEN [w1 EXCEPT ![w.activeView].zoom = zoom] ELSE w1
    IN  save_changes(w2)

scale_changed(w) ==
    LET scale == w.attrs._scale
        w1 == save_changes(model_set(w, "_readonly_scale", scale))
    IN  IF ScaleIsSet(scale) THEN [w1 EXCEPT ![w.activeView].scale = scale] ELSE w1

snap_to_zoom_changed(w) ==
    IF w.attrs.mode = "2D"
    THEN [w EXCEPT ![w.activeView].snapToZoom = w.attrs._snap_to_zoom]
    ELSE w

apply_rotation_to_view(w, rotation) == [w EXCEPT !._MapView.rotation = rotation]

rotation_changed(w) ==
    LET rotation == w.attrs._rotation
    IN  apply_rotation_to_view(save_changes(model_set(w, "_readonly_rotation", rotation)),
                               rotation)

apply_heading_to_view(w, heading) ==
    StartLoad(w, "apply_heading_to_view", heading, ExtentOf("null", 0, 0))

heading_changed(w) ==
    LET heading == w.attrs._heading
    IN  apply_heading_to_view(save_changes(model_set(w, "_readonly_heading", heading)),
                              heading)

apply_tilt_to_view(w, tilt) ==
    StartLoad(w, "apply_tilt_to_view", tilt, ExtentOf("null", 0, 0))

tilt_changed(w) ==
    LET tilt == w.attrs._tilt
    IN  apply_tilt_to_view(save_changes(model_set(w, "_readonly_tilt", tilt)), tilt)

apply_extent_to_view(w, extent) == StartLoad(w, "apply_extent_to_view", 0, extent)

extent_changed(w) == apply_extent_to_view(w, w.attrs._extent)

\* the view autocasts the plain object to a Point; 'x' in null throws
center_changed(w) ==
    LET _center == w.attrs._center
    IN  IF _center.class = "null" THEN _displayErrorBox(w, Message.ErrCenter, TRUE)
        ELSE IF HasXY(_center)
        THEN [w EXCEPT ![w.activeView].center = PointOf("Point", _center.x, _center.y)]
        ELSE w

\* custom_msg_changed: this._displayErrorBox(_custom_msg, browser_console_message = false)
custom_msg_changed(w) ==
    IF w.attrs._custom_msg # Message.NoMessage
    THEN _displayErrorBox(w, w.attrs._custom_msg, FALSE)
    ELSE w

\* _httpGetAsync(fallback_cdn) is started by _check_js_api_version_loaded
js_cdn_changed(w) ==
    IF w.attrs._js_cdn_override # ""
    THEN [StartLoad(w, "js_cdn_changed", 0, ExtentOf("null", 0, 0))
             EXCEPT !.httpGet = "fetch"]
    ELSE w

\* link_rotation_changed that reports the rotation to the store as
\* rotation_changed does
link_rotation_changed_ReportsRotation(w) ==
    LET rotation == w.attrs._link_writeonly_rotation
    IN  apply_rotation_to_view(save_changes(model_set(w, "_readonly_rotation", rotation)),
                               rotation)

link_rotation_changed(w) == apply_rotation_to_view(w, w.attrs._link_writeonly_rotation)

\* _capture_screenshot_send_to: funcToCall(this) calls takeScreenshot on the
\* view of the mode
_capture_screenshot_send_to(w, modelStrsToSendTo) ==
    [StartOnce(w, "_capture_screenshot_send_to", modelStrsToSendTo)
        EXCEPT !.invoked._trigger_screenshot_with_args = @ + 1]

_trigger_screenshot_with_args_changed(w) ==
    LET args == w.attrs._trigger_screenshot_with_args
        modelStr == [set_as_preview |-> "_preview_screenshot_callback_resp",
                     output_in_cell |-> "_cell_output_screenshot_callback_resp",
                     file_path |-> "_file_output_screenshot_callback_resp"]
    IN  _capture_screenshot_send_to(w, {modelStr[k] : k \in args})

\* move_to_new_jlab_window(args): the map element goes to a new JupyterLab
\* window, or back from it into the notebook
move_to_new_jlab_window(w, args) ==
    LET w1 == [w EXCEPT !.invoked._trigger_new_jlab_window_with_args = @ + 1]
    IN  IF w.JupyterTarget # "lab" THEN _displayErrorBox(w1, Message.ErrNotJupyterLab, TRUE)
        ELSE [w1 EXCEPT !.inNewWindow = ~@]

trigger_jlab_window_changed(w) ==
    LET args == w.attrs._trigger_new_jlab_window_with_args
    IN  IF args # {} THEN move_to_new_jlab_window(w, args) ELSE w

\* this.model.get("mode").toLowerCase(), for the values mode takes
ModeToLowerCase(mode) ==
    CASE mode = "2D" -> "2d"
      [] mode = "3D" -> "3d"
      [] OTHER -> mode

\* _instantiate_esri_components: this.map is a WebMap in 2d and a WebScene in
\* 3d, both views display it and the view of the mode gets the container; the
\* time slider and the legend are made for the active view
_instantiate_esri_components(w) ==
    LET scene == ModeToLowerCase(w.attrs.mode) = "3d"
        active == IF scene THEN "_SceneView" ELSE "_MapView"
    IN  [w EXCEPT !.map = NewMap(IF scene THEN "WebScene" ELSE "WebMap",
                                 "world-elevation", "", <<>>),
                  !._MapView = [NewView EXCEPT !.zoom = 2, !.map = "this",
                                               !.container = ~scene],
                  !._SceneView = [NewView EXCEPT !.zoom = 2, !.map = "this",
                                                 !.container = scene],
                  !.activeView = active,
                  !._time_slider = [view |-> active, mode |-> "time-window",
                                    values |-> <<>>],
                  !._legend = [view |-> active]]

\* the arbitrary layer ids for the layers the view wants one instance of
graphicsLayerId == "graphicsLayerId31195"
imageOverlayLayerId == "imageOverlayLayerId551883"

\* map.findLayerById(id): the position of the first layer with that id among
\* layers, 0 for undefined
findLayerById(layers, id) ==
    IF \E i \in DOMAIN layers : layers[i].id = id
    THEN CHOOSE i \in DOMAIN layers :
             layers[i].id = id /\ \A j \in 1..(i - 1) : layers[j].id # id
    ELSE 0

\* update_readonly_webmap: the layers, the ground and the basemap of the map
\* of the MapView, or of the SceneView when the MapView has none, go to
\* _readonly_webmap_from_js; a layer with graphics lists them
update_readonly_webmap(w) ==
    LET v == IF w._MapView.map # "null" THEN "_MapView" ELSE "_SceneView"
        map == IF w[v].map = "this" THEN w.map ELSE w.old
        layer_json(layer) ==
            [id |-> layer.id,
             graphics |-> IF layer.kind = "GraphicsLayer" THEN layer.items ELSE <<>>]
    IN  IF w[v].map = "null"
        THEN _displayErrorBox(w, Message.ErrReadonlyWebmap, TRUE)
        ELSE save_changes(model_set(w, "_readonly_webmap_from_js",
                 [keys |-> {"layers", "ground", "basemap"},
                  layers |-> [i \in DOMAIN map.layers |-> layer_json(map.layers[i])],
                  ground |-> map.ground, basemap |-> map.basemap]))

\* this.map.add(layer) / this.map.remove(layer): this.map.layers becomes
\* layers, and the handler registered on the allLayers of this map, if there
\* is one, runs update_readonly_webmap
set_map_layers(w, layers) ==
    LET w1 == [w EXCEPT !.map.layers = layers]
    IN  IF w.map.listener /\ layers # w.map.layers THEN update_readonly_webmap(w1) ELSE w1

\* the loops of layers_to_remove_changed leaving after the first layer found
\* for an id
RECURSIVE RemoveLayers_FirstOnly(_, _)
RemoveLayers_FirstOnly(layers, _layers_to_remove) ==
    IF _layers_to_remove = <<>> THEN layers
    ELSE LET i == findLayerById(layers, Head(_layers_to_remove))
         IN  IF i = 0 THEN RemoveLayers_FirstOnly(layers, Tail(_layers_to_remove))
             ELSE RemoveLayers_FirstOnly(SubSeq(layers, 1, i - 1)
                                             \o SubSeq(layers, i + 1, Len(layers)),
                                         Tail(_layers_to_remove))

\* the loops of layers_to_remove_changed: for each id of _layers_to_remove,
\* find the layer by its id and remove it while there is one
RECURSIVE RemoveLayers(_, _)
RemoveLayers(layers, _layers_to_remove) ==
    IF _layers_to_remove = <<>> THEN layers
    ELSE LET i == findLayerById(layers, Head(_layers_to_remove))
         IN  IF i = 0 THEN RemoveLayers(layers, Tail(_layers_to_remove))
             ELSE RemoveLayers(SubSeq(layers, 1, i - 1) \o SubSeq(layers, i + 1, Len(layers)),
                               _layers_to_remove)

layers_to_remove_changed(w) ==
    set_map_layers(w, RemoveLayers(w.map.layers, w.attrs._layers_to_remove))

\* getGraphicsLayer that makes a layer without looking for the one there is
getGraphicsLayer_AlwaysNew(w) ==
    [set_map_layers(w, Append(w.map.layers,
                              [id |-> graphicsLayerId, kind |-> "GraphicsLayer",
                               uid |-> w.promises + 1, items |-> <<>>]))
        EXCEPT !.promises = @ + 1]

\* getGraphicsLayer: the layer with graphicsLayerId of this.map, made and
\* added if it has none; uid tells the layer object from any other
getGraphicsLayer(w) ==
    IF findLayerById(w.map.layers, graphicsLayerId) # 0 THEN w
    ELSE [set_map_layers(w, Append(w.map.layers,
                                   [id |-> graphicsLayerId, kind |-> "GraphicsLayer",
                                    uid |-> w.promises + 1, items |-> <<>>]))
             EXCEPT !.promises = @ + 1]

\* getActiveImageOverlayLayer: the same for imageOverlayLayerId
getActiveImageOverlayLayer(w) ==
    IF findLayerById(w.map.layers, imageOverlayLayerId) # 0 THEN w
    ELSE [set_map_layers(w, Append(w.map.layers,
                                   [id |-> imageOverlayLayerId, kind |-> "ImageOverlayLayer",
                                    uid |-> w.promises + 1, items |-> <<>>]))
             EXCEPT !.promises = @ + 1]

\* ImageOverlayLayer.tryRemoveImageOverlays: for(i = 0; i < length; i++) with
\* removeAt(i) on a match; i is the position, from 1, the loop is at
RECURSIVE tryRemoveImageOverlays(_, _, _)
tryRemoveImageOverlays(_imagesToOverlay, imageOverlaysToRemove, i) ==
    IF i > Len(_imagesToOverlay) THEN _imagesToOverlay
    ELSE IF \E k \in DOMAIN imageOverlaysToRemove :
                imageOverlaysToRemove[k] = _imagesToOverlay[i]
    THEN tryRemoveImageOverlays(SubSeq(_imagesToOverlay, 1, i - 1)
                                    \o SubSeq(_imagesToOverlay, i + 1, Len(_imagesToOverlay)),
                                imageOverlaysToRemove, i + 1)
    ELSE tryRemoveImageOverlays(_imagesToOverlay, imageOverlaysToRemove, i + 1)

\* time_slider_prop_changed: the slider goes to the bottom left corner of the
\* active view, or the corner is emptied
time_slider_prop_changed(w) ==
    IF w.attrs.time_slider
    THEN [w EXCEPT ![w.activeView].ui = @ \cup {"_time_slider"},
                   !._time_slider.view = w.activeView]
    ELSE [w EXCEPT ![w.activeView].ui = @ \ {"_time_slider"}]

\* Date.prototype.toISOString() of the two dates of the time slider
ToISOString(date) ==
    IF date = "start" THEN "2020-01-01T00:00:00.000Z" ELSE "2020-12-31T00:00:00.000Z"

\* this._time_slider.values = values, and the watch on the values the view
\* set up in _instantiate_esri_components: time_slider_values_changed(values)
set_time_slider_values(w, values) ==
    LET w0 == [w EXCEPT !._time_slider.values = values]
        w1 == IF Len(values) >= 1
              THEN model_set(w0, "_readonly_start_time", ToISOString(values[1]))
              ELSE w0
        w2 == IF Len(values) = 2
              THEN model_set(w1, "_readonly_end_time", ToISOString(values[2]))
              ELSE w1
    IN  save_changes(w2)

\* time_mode_changed: nothing unless time_slider is set
time_mode_changed(w) ==
    LET timeMode == w.attrs.time_mode
        values == w._time_slider.values
        w1 == [w EXCEPT !._time_slider.mode = timeMode]
    IN  IF ~w.attrs.time_slider THEN w
        ELSE IF Len(values) > 0
                /\ timeMode \in {"instant", "cumulative-from-start", "cumulative-from-end"}
        THEN set_time_slider_values(w1, <<values[1]>>)
        ELSE IF Len(values) = 1 /\ timeMode = "time-window"
        THEN set_time_slider_values(w1, <<values[1], values[1]>>)
        ELSE w1


\* legend_prop_changed: the same for the legend and the bottom right corner
legend_prop_changed(w) ==
    IF w.attrs.legend
    THEN [w EXCEPT ![w.activeView].ui = @ \cup {"_legend"}, !._legend.view = w.activeView]
    ELSE [w EXCEPT ![w.activeView].ui = @ \ {"_legend"}]

\* this.map = map; this[v].map = this.map: the other view goes on displaying
\* the map it had
ReplaceMap(w, v, map) ==
    LET other == IF v = "_MapView" THEN "_SceneView" ELSE "_MapView"
    IN  [w EXCEPT !.old = IF w[other].map = "this" THEN w.map ELSE @,
                  ![other].map = IF @ = "this" THEN "old" ELSE @,
                  ![v].map = "this",
                  !.map = map]

\* WebMap.fromJSON(json) and new WebScene(json): the layers of the object
MapFromJSON(class, json) ==
    NewMap(class, "", "",
           [i \in DOMAIN json.layers |->
               [id |-> json.layers[i], kind |-> "Layer", uid |-> 0, items |-> <<>>]])

\* the body of a function of the view called on w.  mode_changed,
\* basemap_changed, center_long_lat_changed, webmap_changed, webscene_changed
\* and time_info_changed only start a module load, as save_webscene and
\* interactive_draw_shape do once for every call; the callbacks are in LoadThen
\* and LoadCatch.  The steps that act on the token, the portal and the layer
\* requests are part of the actions that call them, and hide_mode_switch,
\* legend and time_slider stay at their defaults
Call(w, fn) ==
    CASE fn \in {"mode_changed", "basemap_changed", "center_long_lat_changed",
                 "webmap_changed", "webscene_changed", "time_info_changed"} ->
            StartLoad(w, fn, 0, ExtentOf("null", 0, 0))
      [] fn = "zoom_changed" -> zoom_changed(w)
      [] fn = "scale_changed" -> scale_changed(w)
      [] fn = "snap_to_zoom_changed" -> snap_to_zoom_changed(w)
      [] fn = "rotation_changed" -> rotation_changed(w)
      [] fn = "heading_changed" -> heading_changed(w)
      [] fn = "tilt_changed" -> tilt_changed(w)
      [] fn = "center_changed" -> center_changed(w)
      [] fn = "extent_changed" -> extent_changed(w)
      [] fn = "custom_msg_changed" -> custom_msg_changed(w)
      [] fn = "link_rotation_changed" -> link_rotation_changed(w)
      [] fn = "link_heading_changed" ->
            apply_heading_to_view(w, w.attrs._link_writeonly_heading)
      [] fn = "link_tilt_changed" -> apply_tilt_to_view(w, w.attrs._link_writeonly_tilt)
      [] fn = "link_extent_changed" ->
            apply_extent_to_view(w, w.attrs._link_writeonly_extent)
      [] fn \in {"save_webscene", "interactive_draw_shape"} -> StartOnce(w, fn, {})
      [] fn = "layers_to_remove_changed" -> layers_to_remove_changed(w)
      [] fn = "graphics_changed" ->
            IF w.attrs._add_this_graphic.keys # {}
            THEN StartWith(w, "add_graphic", <<w.attrs._add_this_graphic.id>>)
            ELSE w
      [] fn = "overlay_image_changed" ->
            IF w.attrs._overlay_this_image.keys # {}
            THEN StartWith(w, "overlay_this_image", <<w.attrs._overlay_this_image.id>>)
            ELSE w
      [] fn = "image_overlays_to_remove_changed" ->
            StartWith(w, fn, w.attrs._image_overlays_to_remove)
      [] fn = "legend_prop_changed" -> legend_prop_changed(w)
      [] fn = "time_slider_prop_changed" -> time_slider_prop_changed(w)
      [] fn = "time_mode_changed" -> time_mode_changed(w)
      [] fn = "_trigger_screenshot_with_args_changed" ->
            _trigger_screenshot_with_args_changed(w)
      [] fn = "trigger_jlab_window_changed" -> trigger_jlab_window_changed(w)
      [] OTHER -> w

RECURSIVE RunSteps(_, _)
RunSteps(w, fns) ==
    IF fns = <<>> THEN w
    ELSE RunSteps([Call(w, Head(fns)) EXCEPT !.loadSteps = Append(@, Head(fns))],
                  Tail(fns))

\* update_widget_from_model up to the authentication request
StepsBeforeAuth ==
    <<"mode_changed", "basemap_changed", "zoom_changed", "scale_changed",
      "snap_to_zoom_changed", "rotation_changed", "heading_changed", "tilt_changed",
      "center_long_lat_changed", "center_changed", "extent_changed",
      "hide_mode_switch_changed", "portal_token_changed", "authenticate_to_portal">>

\* StepsAfterAuth with the webmap and the webscene applied before the layers
StepsAfterAuth_WebmapFirst ==
    <<"webmap_changed", "webscene_changed", "draw_these_notype_layers_on_widget_load",
      "draw_these_graphics_on_widget_load", "overlay_these_images_on_widget_load",
      "legend_prop_changed", "time_slider_prop_changed", "time_mode_changed",
      "time_info_changed">>

\* the .then callback of authenticate_to_portal() in update_widget_from_model
StepsAfterAuth ==
    <<"draw_these_notype_layers_on_widget_load", "draw_these_graphics_on_widget_load",
      "overlay_these_images_on_widget_load", "webmap_changed", "webscene_changed",
      "legend_prop_changed", "time_slider_prop_changed", "time_mode_changed",
      "time_info_changed">>

\* render(): the .then of esriLoader.loadModules up to the authentication
\* request of update_widget_from_model
RenderThen(w) ==
    RunSteps([_instantiate_esri_components(w) EXCEPT !.map.listener = TRUE,
                                                     !.handlers = HandlerTable,
                                                     !.loadPromise = "pending"],
             StepsBeforeAuth)

----------------------------------------------------------------------------
(* Authentication gate: authenticate_to_portal and the token handling *)

\* the values of _auth_mode: the literals authenticate_to_portal compares it
\* with, then values the Python side can give it (empty is the model default)
Str ==
    [anonymous |-> <<"a", "n", "o", "n", "y", "m", "o", "u", "s">>,
     tokenbased |-> <<"t", "o", "k", "e", "n", "b", "a", "s", "e", "d">>,
     prompt |-> <<"p", "r", "o", "m", "p", "t">>,
     TokenBased |-> <<"T", "o", "k", "e", "n", "B", "a", "s", "e", "d">>,
     PROMPT |-> <<"P", "R", "O", "M", "P", "T">>,
     oauth |-> <<"o", "a", "u", "t", "h">>,
     empty |-> <<>>]



\* '_portal' in this is false
NoPortal == 0

\* JavaScript truthiness of a string-or-undefined value
Truthy(v) == v # "" /\ v # Undefined

\* the rejection values of authenticate_to_portal
NoError == [kind |-> "none", portal_url |-> "", portal_sharing_rest_url |-> "",
            portal_token |-> "", portal |-> NoPortal]
PortalLoadError(p) == [NoError EXCEPT !.kind = "portalLoad", !.portal = p]
\* rejMsg: the three field names, each followed by the value the message prints
TokenFieldsError(url, rest, shownToken) ==
    [kind |-> "tokenFields", portal_url |-> url, portal_sharing_rest_url |-> rest,
     portal_token |-> shownToken, portal |-> NoPortal]

\* get_portal_token()
get_portal_token ==
    IF Truthy(_portalToken) THEN _portalToken
    ELSE IF "w1" \in DOMAIN globalTokenLookup THEN globalTokenLookup["w1"]
    ELSE model._portal_token

\* portal_token_changed() that keeps the token in this._portalToken only
portal_token_changed_PrivateOnly(m) ==
    IF Truthy(m._portal_token)
    THEN /\ _portalToken' = m._portal_token
         /\ model' = [m EXCEPT !._portal_token = ""]
         /\ UNCHANGED globalTokenLookup
    ELSE /\ model' = m
         /\ UNCHANGED <<_portalToken, globalTokenLookup>>

\* portal_token_changed(), run on the model m
portal_token_changed(m) ==
    IF Truthy(m._portal_token)
    THEN /\ _portalToken' = m._portal_token
         /\ globalTokenLookup' = [u \in DOMAIN globalTokenLookup \cup {"w1"} |->
                                    IF u = "w1" THEN m._portal_token
                                    ELSE globalTokenLookup[u]]
         /\ model' = [m EXCEPT !._portal_token = ""]
    ELSE /\ model' = m
         /\ UNCHANGED <<_portalToken, globalTokenLookup>>

\* get_portal_token() of the sibling: another view of the same widget model in
\* the same page, with the same uuid and its own _portalToken
sibling_get_portal_token ==
    IF Truthy(widget.sibling._portalToken) THEN widget.sibling._portalToken
    ELSE IF "w1" \in DOMAIN globalTokenLookup THEN globalTokenLookup["w1"]
    ELSE model._portal_token

\* portal_token_changed() of the sibling, run on the model m
sibling_portal_token_changed(m) ==
    IF Truthy(m._portal_token)
    THEN /\ widget' = [widget EXCEPT !.sibling._portalToken = m._portal_token,
                                     !.sibling.started = TRUE,
                                     !.sibling.first = @ \/ ~started]
         /\ globalTokenLookup' = [u \in DOMAIN globalTokenLookup \cup {"w1"} |->
                                    IF u = "w1" THEN m._portal_token
                                    ELSE globalTokenLookup[u]]
         /\ model' = [m EXCEPT !._portal_token = ""]
    ELSE /\ widget' = [widget EXCEPT !.sibling.started = TRUE,
                                     !.sibling.first = @ \/ ~started]
         /\ model' = m
         /\ UNCHANGED globalTokenLookup

\* a new authenticate_to_portal() promise: esriLoader.loadModules is pending
NewCall == [pc |-> "loadModules", own |-> NoPortal, result |-> NoPortal, err |-> NoError]

\* authenticate_to_portal(): the promise is created and the modules are requested
authenticate_to_portal ==
    /\ Len(calls) < MaxCalls
    /\ calls' = Append(calls, NewCall)

\* render(): the handlers are registered, then update_widget_from_model() runs
\* portal_token_changed() and requests the first authentication
update_widget_from_model ==
    /\ ~started
    /\ started' = TRUE
    /\ portal_token_changed(model)
    /\ authenticate_to_portal
    /\ ~widget.renderFailed
    /\ widget' = RenderThen(widget)
    /\ UNCHANGED <<esriConfig, IdentityManager, portals, _portal, requests, events>>

\* webscene_changed(): a non-empty _webscene authenticates before loading the scene
webscene_changed ==
    /\ started
    /\ authenticate_to_portal
    /\ UNCHANGED <<started, model, _portalToken, globalTokenLookup, esriConfig,
                   IdentityManager, portals, _portal, requests, viewVars>>

\* the Python side changes _auth_mode (no change handler is registered for it)
set_auth_mode(m) ==
    /\ m # model._auth_mode
    /\ model' = [model EXCEPT !._auth_mode = m]
    /\ UNCHANGED <<started, _portalToken, globalTokenLookup, esriConfig,
                   IdentityManager, portals, _portal, calls, requests, viewVars>>

\* the Python side changes _portal_url
set_portal_url(u) ==
    /\ u # model._portal_url
    /\ model' = [model EXCEPT !._portal_url = u]
    /\ UNCHANGED <<started, _portalToken, globalTokenLookup, esriConfig,
                   IdentityManager, portals, _portal, calls, requests, viewVars>>

\* the Python side changes _portal_sharing_rest_url
set_portal_sharing_rest_url(u) ==
    /\ u # model._portal_sharing_rest_url
    /\ model' = [model EXCEPT !._portal_sharing_rest_url = u]
    /\ UNCHANGED <<started, _portalToken, globalTokenLookup, esriConfig,
                   IdentityManager, portals, _portal, calls, requests, viewVars>>

\* the Python side changes _portal_token: once the handlers are registered,
\* change:_portal_token runs portal_token_changed; the handler of a sibling
\* that registered later runs after it and finds the attribute empty
set_portal_token(t) ==
    /\ t # model._portal_token
    /\ ~(widget.sibling.started /\ (widget.sibling.first \/ ~started))
    /\ IF started
       THEN portal_token_changed([model EXCEPT !._portal_token = t])
       ELSE /\ model' = [model EXCEPT !._portal_token = t]
            /\ UNCHANGED <<_portalToken, globalTokenLookup>>
    /\ UNCHANGED <<started, esriConfig, IdentityManager, portals, _portal, calls, requests, viewVars>>

\* the Python side changes _portal_token while the handler of the sibling is
\* the first registered: it runs first, and the handler of this view finds the
\* attribute empty
sibling_set_portal_token(t) ==
    /\ t # model._portal_token
    /\ widget.sibling.started /\ (widget.sibling.first \/ ~started)
    /\ sibling_portal_token_changed([model EXCEPT !._portal_token = t])
    /\ UNCHANGED <<started, _portalToken, esriConfig, IdentityManager, portals, _portal,
                   calls, requests, events>>

\* render() of the sibling: its handlers are registered and its
\* update_widget_from_model runs portal_token_changed
sibling_render ==
    /\ ~widget.sibling.started
    /\ sibling_portal_token_changed(model)
    /\ UNCHANGED <<started, _portalToken, esriConfig, IdentityManager, portals, _portal,
                   calls, requests, events>>

\* the .catch of esriLoader.loadModules: reject(err)
authenticate_loadModules_catch(c) ==
    /\ calls[c].pc = "loadModules"
    /\ calls' = [calls EXCEPT ![c].pc = "rejected", ![c].err = [NoError EXCEPT !.kind = "loadModules"]]
    /\ UNCHANGED <<started, model, _portalToken, globalTokenLookup, esriConfig,
                   IdentityManager, portals, _portal, requests, viewVars>>

\* a previously set up portal exists and is loaded
PortalCached == _portal # NoPortal /\ portals[_portal].loaded

\* AuthModeBranch comparing _auth_mode itself, without toLowerCase()
AuthModeBranch_CaseSensitive(m) ==
    IF m = Str.anonymous THEN "anonymous"
    ELSE IF m = Str.tokenbased THEN "tokenbased"
    ELSE IF m = Str.prompt THEN "prompt"
    ELSE "none"

\* which branch the chain of _auth_mode.toLowerCase() comparisons takes
AuthModeBranch(m) ==
    IF ToLowerCase(m) = Str.anonymous THEN "anonymous"
    ELSE IF ToLowerCase(m) = Str.tokenbased THEN "tokenbased"
    ELSE IF ToLowerCase(m) = Str.prompt THEN "prompt"
    ELSE "none"

\* TokenFieldsMissing without the test of _portal_sharing_rest_url
TokenFieldsMissing_SkipsRestUrl(url, rest, token) ==
    ~(Truthy(url) /\ Truthy(token))

\* !(_portal_url && _portal_sharing_rest_url && _portal_token)
TokenFieldsMissing(url, rest, token) ==
    ~(Truthy(url) /\ Truthy(rest) /\ Truthy(token))

\* new Portal(...) followed by this._portal.load(): the call waits for its load
ConstructPortal(c, props) ==
    /\ portals' = Append(portals, [authMode |-> props.authMode, url |-> props.url,
                                   loaded |-> FALSE, failed |-> FALSE])
    /\ _portal' = Len(portals) + 1
    /\ calls' = [calls EXCEPT ![c].pc = "loading", ![c].own = Len(portals) + 1]

\* if(_portal_url !== "") esriConfig.portalUrl = _portal_url
SetPortalUrl ==
    esriConfig' = IF model._portal_url # ""
                  THEN [esriConfig EXCEPT !.portalUrl = model._portal_url]
                  ELSE esriConfig

\* the .then of esriLoader.loadModules: the body of authenticate_to_portal
authenticate_then(c) ==
    /\ calls[c].pc = "loadModules"
    /\ IF PortalCached
       THEN /\ calls' = [calls EXCEPT ![c].pc = "resolved", ![c].result = _portal]
            /\ UNCHANGED <<esriConfig, IdentityManager, portals, _portal>>
       ELSE IF AuthModeBranch(model._auth_mode) = "anonymous"
       THEN /\ SetPortalUrl
            /\ ConstructPortal(c, [authMode |-> "anonymous", url |-> ""])
            /\ UNCHANGED IdentityManager
       ELSE IF AuthModeBranch(model._auth_mode) = "tokenbased"
       THEN IF TokenFieldsMissing(model._portal_url, model._portal_sharing_rest_url,
                                  get_portal_token)
            THEN /\ calls' = [calls EXCEPT
                                ![c].pc = "rejected",
                                ![c].err = TokenFieldsError(model._portal_url,
                                                            model._portal_sharing_rest_url,
                                                            _portalToken)]
                 /\ UNCHANGED <<esriConfig, IdentityManager, portals, _portal>>
            ELSE /\ IdentityManager' =
                        [servers |-> IdentityManager.servers
                                        \cup {model._portal_sharing_rest_url},
                         tokens |-> IdentityManager.tokens
                                        \cup {[server |-> model._portal_sharing_rest_url,
                                               token |-> get_portal_token]}]
                 /\ esriConfig' = [esriConfig EXCEPT
                                     !.trustedServers = Append(@, model._portal_url)]
                 /\ ConstructPortal(c, [authMode |-> "auto", url |-> model._portal_url])
       ELSE IF AuthModeBranch(model._auth_mode) = "prompt"
       THEN /\ SetPortalUrl
            /\ ConstructPortal(c, [authMode |-> "immediate", url |-> ""])
            /\ UNCHANGED IdentityManager
       ELSE /\ calls' = [calls EXCEPT ![c].pc = "rejected", ![c].err = [NoError EXCEPT !.kind = "authMode"]]
            /\ UNCHANGED <<esriConfig, IdentityManager, portals, _portal>>
    /\ UNCHANGED <<started, model, _portalToken, globalTokenLookup, requests, viewVars>>

\* this._portal.load().then: resolve(this._portal)
portal_load_then(c) ==
    /\ calls[c].pc = "loading"
    /\ portals' = [portals EXCEPT ![calls[c].own].loaded = TRUE]
    /\ calls' = [calls EXCEPT ![c].pc = "resolved", ![c].result = _portal]
    /\ UNCHANGED <<started, model, _portalToken, globalTokenLookup, esriConfig,
                   IdentityManager, _portal, requests, viewVars>>

\* this._portal.load().catch: reject(err)
portal_load_catch(c) ==
    /\ calls[c].pc = "loading"
    /\ portals' = [portals EXCEPT ![calls[c].own].failed = TRUE]
    /\ calls' = [calls EXCEPT ![c].pc = "rejected", ![c].err = PortalLoadError(calls[c].own)]
    /\ UNCHANGED <<started, model, _portalToken, globalTokenLookup, esriConfig,
                   IdentityManager, _portal, requests, viewVars>>

\* the defaults of the model attributes the authentication reads
ModelDefaults == [_auth_mode |-> Str.empty, _portal_url |-> "",
                  _portal_sharing_rest_url |-> "", _portal_token |-> ""]

\* the state of the authentication gate when the view is constructed: the model
\* holds whatever the Python side set, the token table may hold a token stored
\* by an earlier view of the same widget
InitAuth ==
    /\ started = FALSE
    /\ model \in [_auth_mode : {Str.anonymous, Str.TokenBased, Str.PROMPT, Str.oauth,
                               Str.empty},
                  _portal_url : {"", "https://portal/"},
                  _portal_sharing_rest_url : {"", "https://portal/"},
                  _portal_token : {"", "tok"}]
    /\ _portalToken = Undefined
    /\ globalTokenLookup \in {<<>>, [u \in {"w1"} |-> "tok"]}
    /\ esriConfig = [portalUrl |-> "https://www.arcgis.com", trustedServers |-> <<>>]
    /\ IdentityManager = [servers |-> {}, tokens |-> {}]
    /\ portals = <<>>
    /\ _portal = NoPortal
    /\ calls = <<>>
    /\ widget = NewWidget("2D", "", <<>>)
    /\ events = [sets |-> 0, moves |-> 0, failures |-> 0]

NextAuth ==
    \/ update_widget_from_model
    \/ webscene_changed
    \/ \E m \in {Str.anonymous, Str.TokenBased, Str.PROMPT, Str.oauth, Str.empty} : set_auth_mode(m)
    \/ \E u \in {"", "https://portal/"} : set_portal_url(u)
    \/ \E u \in {"", "https://portal/"} : set_portal_sharing_rest_url(u)
    \/ \E t \in {"", "tok"} : set_portal_token(t)
    \/ \E c \in DOMAIN calls : authenticate_loadModules_catch(c)
    \/ \E c \in DOMAIN calls : authenticate_then(c)
    \/ \E c \in DOMAIN calls : portal_load_then(c)
    \/ \E c \in DOMAIN calls : portal_load_catch(c)

----------------------------------------------------------------------------
(* Type inference dispatcher: inferNoTypeLayer *)

\* the type strings: the tags inferNoTypeLayer compares noTypeLayer.type with,
\* then four values that equal none of them (three differ from a tag only by
\* letter case, FooLayer is unrelated)
Tag ==
    [ImageryLayer |-> <<"I", "m", "a", "g", "e", "r", "y", "L", "a", "y", "e", "r">>,
     KMLLayer |-> <<"K", "M", "L", "L", "a", "y", "e", "r">>,
     KML |-> <<"K", "M", "L">>,
     ArcGISTiledMapServiceLayer |-> <<"A", "r", "c", "G", "I", "S", "T", "i", "l", "e", "d", "M", "a", "p", "S", "e", "r", "v", "i", "c", "e", "L", "a", "y", "e", "r">>,
     TileLayer |-> <<"T", "i", "l", "e", "L", "a", "y", "e", "r">>,
     ArcGISDynamicMapServiceLayer |-> <<"A", "r", "c", "G", "I", "S", "D", "y", "n", "a", "m", "i", "c", "M", "a", "p", "S", "e", "r", "v", "i", "c", "e", "L", "a", "y", "e", "r">>,
     MapImageLayer |-> <<"M", "a", "p", "I", "m", "a", "g", "e", "L", "a", "y", "e", "r">>,
     VectorTileLayer |-> <<"V", "e", "c", "t", "o", "r", "T", "i", "l", "e", "L", "a", "y", "e", "r">>,
     WMS |-> <<"W", "M", "S">>,
     WebTiledLayer |-> <<"W", "e", "b", "T", "i", "l", "e", "d", "L", "a", "y", "e", "r">>,
     GeoRSS |-> <<"G", "e", "o", "R", "S", "S">>,
     GeoJSON |-> <<"G", "e", "o", "J", "S", "O", "N">>,
     CSV |-> <<"C", "S", "V">>,
     SceneLayer |-> <<"S", "c", "e", "n", "e", "L", "a", "y", "e", "r">>,
     PointCloudLayer |-> <<"P", "o", "i", "n", "t", "C", "l", "o", "u", "d", "L", "a", "y", "e", "r">>,
     IntegratedMeshLayer |-> <<"I", "n", "t", "e", "g", "r", "a", "t", "e", "d", "M", "e", "s", "h", "L", "a", "y", "e", "r">>,
     BuildingSceneLayer |-> <<"B", "u", "i", "l", "d", "i", "n", "g", "S", "c", "e", "n", "e", "L", "a", "y", "e", "r">>,
     FeatureLayer |-> <<"F", "e", "a", "t", "u", "r", "e", "L", "a", "y", "e", "r">>,
     Feature_Layer |-> <<"F", "e", "a", "t", "u", "r", "e", " ", "L", "a", "y", "e", "r">>,
     tilelayer |-> <<"t", "i", "l", "e", "l", "a", "y", "e", "r">>,
     kml |-> <<"k", "m", "l">>,
     FEATURELAYER |-> <<"F", "E", "A", "T", "U", "R", "E", "L", "A", "Y", "E", "R">>,
     FooLayer |-> <<"F", "o", "o", "L", "a", "y", "e", "r">>]

\* values of _hashFromPython, the correlation id the Python side assigns
Hashes == <<"h1", "h2", "h3">>

\* no layer object
NoLayer == [kind |-> "none", id |-> Undefined, url |-> "", source |-> "", renderer |-> ""]

\* NewLayer without the assignment of typedLayer.id in the WMS branch
NewLayer_WMSWithoutId(kind, d, url, source) ==
    [kind |-> kind, id |-> IF kind = "WMSLayer" THEN Undefined ELSE d._hashFromPython,
     url |-> url, source |-> source, renderer |-> "default"]

\* a layer constructed for descriptor d, with typedLayer.id = noTypeLayer._hashFromPython
NewLayer(kind, d, url, source) ==
    [kind |-> kind, id |-> d._hashFromPython, url |-> url, source |-> source,
     renderer |-> "default"]

\* TypeIs comparing the lower-cased strings
TypeIs_IgnoresCase(d, tag) ==
    "type" \in d.has /\ ToLowerCase(d.type) = ToLowerCase(tag)

\* noTypeLayer.type == tag (an absent type is undefined and equals no tag)
TypeIs(d, tag) == "type" \in d.has /\ d.type = tag

\* Unmatched without the final else: every unmatched descriptor is taken for a
\* feature collection
Unmatched_AssumesFeatureSet(d) == "featureSet"

\* the end of the chain: else if('featureSet' in noTypeLayer) ... else reject
Unmatched(d) == IF "featureSet" \in d.has THEN "featureSet" ELSE "unsupported"

\* the if / else-if chain of inferNoTypeLayer, in source order; each branch is
\* named after the first tag it tests
TypeBranch(d) ==
    IF TypeIs(d, Tag.ImageryLayer) THEN "ImageryLayer"
    ELSE IF TypeIs(d, Tag.KMLLayer) \/ TypeIs(d, Tag.KML) THEN "KMLLayer"
    ELSE IF TypeIs(d, Tag.ArcGISTiledMapServiceLayer) \/ TypeIs(d, Tag.TileLayer)
    THEN "TileLayer"
    ELSE IF TypeIs(d, Tag.ArcGISDynamicMapServiceLayer) \/ TypeIs(d, Tag.MapImageLayer)
    THEN "MapImageLayer"
    ELSE IF TypeIs(d, Tag.VectorTileLayer) THEN "VectorTileLayer"
    ELSE IF TypeIs(d, Tag.WMS) THEN "WMS"
    ELSE IF TypeIs(d, Tag.WebTiledLayer) THEN "WebTiledLayer"
    ELSE IF TypeIs(d, Tag.GeoRSS) THEN "GeoRSS"
    ELSE IF TypeIs(d, Tag.GeoJSON) THEN "GeoJSON"
    ELSE IF TypeIs(d, Tag.CSV) THEN "CSV"
    ELSE IF TypeIs(d, Tag.SceneLayer) THEN "SceneLayer"
    ELSE IF TypeIs(d, Tag.PointCloudLayer) THEN "PointCloudLayer"
    ELSE IF TypeIs(d, Tag.IntegratedMeshLayer) THEN "IntegratedMeshLayer"
    ELSE IF TypeIs(d, Tag.BuildingSceneLayer) THEN "BuildingSceneLayer"
    ELSE IF TypeIs(d, Tag.FeatureLayer) \/ TypeIs(d, Tag.Feature_Layer) THEN "FeatureLayer"
    ELSE Unmatched(d)

\* LayerClass with the two classes renamed in 4.X exchanged
LayerClass_TileAndMapImageSwapped(branch) ==
    IF branch = "TileLayer" THEN "MapImageLayer"
    ELSE IF branch = "MapImageLayer" THEN "TileLayer"
    ELSE IF branch = "WMS" THEN "WMSLayer"
    ELSE IF branch = "WebTiledLayer" THEN "WMTSLayer"
    ELSE IF branch = "GeoRSS" THEN "GeoRSSLayer"
    ELSE IF branch = "GeoJSON" THEN "GeoJSONLayer"
    ELSE IF branch = "CSV" THEN "CSVLayer"
    ELSE IF branch = "featureSet" THEN "FeatureLayer"
    ELSE branch

\* the class each branch constructs (the other branches construct the class
\* their name says)
LayerClass(branch) ==
    IF branch = "WMS" THEN "WMSLayer"
    ELSE IF branch = "WebTiledLayer" THEN "WMTSLayer"
    ELSE IF branch = "GeoRSS" THEN "GeoRSSLayer"
    ELSE IF branch = "GeoJSON" THEN "GeoJSONLayer"
    ELSE IF branch = "CSV" THEN "CSVLayer"
    ELSE IF branch = "featureSet" THEN "FeatureLayer"
    ELSE branch

\* the branch dereferences a field the descriptor does not have: the TypeError
\* thrown in the loadModules callback reaches the outer .catch, which rejects
ThrowsTypeError(d, branch) ==
    \/ branch = "WMS" /\ "sublayers" \notin d.has
    \/ branch = "GeoJSON" /\ "data" \notin d.has
    \/ branch = "CSV" /\ "layerDefinition" \notin d.has
    \/ branch = "featureSet" /\ ("layerDefinition" \notin d.has \/ "options" \notin d.has)

\* lyr_options.renderer is truthy, lyr_options being noTypeLayer itself when
\* noTypeLayer.options == null
LyrOptionsHasRenderer(d) ==
    IF "options" \notin d.has THEN "renderer" \in d.has ELSE "renderer" \in d.options.has

\* a new inferNoTypeLayer() promise: esriLoader.loadModules is pending
NewRequest(d) ==
    [desc |-> d, pc |-> "loadModules", branch |-> "none", layer |-> NoLayer, err |-> "none"]

Resolved(r, branch, layer) ==
    [r EXCEPT !.pc = "resolved", !.branch = branch, !.layer = layer]
Rejected(r, branch, err) ==
    [r EXCEPT !.pc = "rejected", !.branch = branch, !.err = err]
Waiting(r, branch, pc, layer) ==
    [r EXCEPT !.pc = pc, !.branch = branch, !.layer = layer]

\* the WMS branch: noTypeLayer.subLayers is set and noTypeLayer.type is deleted
WMSDescriptor(d) ==
    [d EXCEPT !.has = (d.has \cup {"subLayers"}) \ {"type"}, !.type = <<>>]

\* the request after the .then callback of esriLoader.loadModules has run
Dispatched(r) ==
    LET d == r.desc
        b == TypeBranch(d)
    IN  IF b = "unsupported" THEN Rejected(r, b, "This layer type is not supported.")
        ELSE IF ThrowsTypeError(d, b) THEN Rejected(r, b, "TypeError")
        ELSE IF b = "ImageryLayer"
        THEN IF "capabilities" \in d.has /\ d.capabilities = "tilesOnly"
             THEN Resolved(r, b, NewLayer("ImageryTileLayer", d, d.url, "url"))
             ELSE Resolved(r, b, NewLayer("ImageryLayer", d, d.url, "url"))
        ELSE IF b = "WMS"
        THEN [Resolved(r, b, NewLayer(LayerClass(b), d, d.url, "url"))
                 EXCEPT !.desc = WMSDescriptor(d)]
        ELSE IF b = "GeoJSON"
        THEN LET layer == NewLayer(LayerClass(b), d,
                                   IF d.data # {} THEN "blob:data" ELSE d.url, "url")
             IN  IF "renderer" \in d.has
                 THEN Waiting(r, b, "inferRenderer", layer)
                 ELSE Resolved(r, b, layer)
        ELSE IF b = "CSV" THEN Waiting(r, b, "inferRenderer", NoLayer)
        ELSE IF b = "FeatureLayer"
        THEN Waiting(r, b, "load", NewLayer(LayerClass(b), d, d.url, "url"))
        ELSE IF b = "featureSet"
        THEN Waiting(r, b, "inferRenderer", NewLayer(LayerClass(b), d, "", "featureSet"))
        ELSE Resolved(r, b, NewLayer(LayerClass(b), d, d.url, "url"))

\* inferNoTypeLayer(d): the promise is created and the modules are requested;
\* the i-th descriptor the Python side sends carries the i-th correlation id
inferNoTypeLayer(d) ==
    /\ Len(requests) < MaxRequests
    /\ d._hashFromPython = Hashes[Len(requests) + 1]
    /\ requests' = Append(requests, NewRequest(d))
    /\ UNCHANGED <<authVars, viewVars>>

\* reload_all_layers(): draw_these_notype_layers_on_widget_load() hands the
\* stored descriptor objects to add_notype_layer again, as the first
\* resolution left them
reload_all_layers ==
    /\ requests # <<>>
    /\ Len(requests) < MaxRequests
    /\ \A i \in DOMAIN requests : requests[i].pc # "loadModules"
    /\ requests' = Append(requests, NewRequest(requests[1].desc))
    /\ UNCHANGED <<authVars, viewVars>>

\* the outer .catch when esriLoader.loadModules fails: reject(err)
inferNoTypeLayer_loadModules_catch(i) ==
    /\ requests[i].pc = "loadModules"
    /\ requests' = [requests EXCEPT ![i] = Rejected(requests[i], "none", "loadModules")]
    /\ UNCHANGED <<authVars, viewVars>>

\* the .then callback of esriLoader.loadModules
inferNoTypeLayer_then(i) ==
    /\ requests[i].pc = "loadModules"
    /\ requests' = [requests EXCEPT ![i] = Dispatched(requests[i])]
    /\ UNCHANGED <<authVars, viewVars>>

\* unloadedLayer.load().then: options are applied, then the renderer is looked at
featureLayer_load_then(i) ==
    /\ requests[i].pc = "load"
    /\ requests' = [requests EXCEPT ![i] =
                       IF LyrOptionsHasRenderer(requests[i].desc)
                       THEN [requests[i] EXCEPT !.pc = "inferRenderer"]
                       ELSE [requests[i] EXCEPT !.pc = "resolved"]]
    /\ UNCHANGED <<authVars, viewVars>>

\* unloadedLayer.load().catch: reject(err)
featureLayer_load_catch(i) ==
    /\ requests[i].pc = "load"
    /\ requests' = [requests EXCEPT ![i].pc = "rejected", ![i].err = "layerLoad"]
    /\ UNCHANGED <<authVars, viewVars>>

\* inferRenderer(...).then in the GeoJSON, CSV, FeatureLayer and featureSet branches
inferRenderer_then(i) ==
    /\ requests[i].pc = "inferRenderer"
    /\ requests' = [requests EXCEPT ![i] =
                       IF requests[i].branch = "CSV"
                       THEN Resolved(requests[i], "CSV",
                                     [NewLayer("CSVLayer", requests[i].desc,
                                               requests[i].desc.url, "url")
                                         EXCEPT !.renderer = "inferred"])
                       ELSE [requests[i] EXCEPT !.pc = "resolved",
                                                !.layer.renderer = "inferred"]]
    /\ UNCHANGED <<authVars, viewVars>>

\* inferRenderer(...).catch: GeoJSON and CSV resolve the layer without the
\* renderer, FeatureLayer and featureSet reject(err)
inferRenderer_catch(i) ==
    /\ requests[i].pc = "inferRenderer"
    /\ requests' = [requests EXCEPT ![i] =
                       IF requests[i].branch = "CSV"
                       THEN Resolved(requests[i], "CSV",
                                     NewLayer("CSVLayer", requests[i].desc,
                                              requests[i].desc.url, "url"))
                       ELSE IF requests[i].branch = "GeoJSON"
                       THEN [requests[i] EXCEPT !.pc = "resolved"]
                       ELSE [requests[i] EXCEPT !.pc = "rejected", !.err = "inferRenderer"]]
    /\ UNCHANGED <<authVars, viewVars>>

----------------------------------------------------------------------------
(* Layer descriptors: JavaScript objects, has being the set of own properties *)

\* a descriptor; absent optional fields keep a fixed value
Descriptor(typed, tag, fields, optionFields, capabilities, data, hash) ==
    [has |-> {"url", "_hashFromPython"} \cup fields
                \cup (IF typed THEN {"type"} ELSE {}),
     type |-> tag,
     url |-> "https://server/layer",
     options |-> [has |-> optionFields],
     capabilities |-> capabilities,
     data |-> data,
     _hashFromPython |-> hash]

\* every tag of the if / else-if chain
KnownTags == {Tag.ImageryLayer, Tag.KMLLayer, Tag.KML, Tag.ArcGISTiledMapServiceLayer,
              Tag.TileLayer, Tag.ArcGISDynamicMapServiceLayer, Tag.MapImageLayer,
              Tag.VectorTileLayer, Tag.WMS, Tag.WebTiledLayer, Tag.GeoRSS, Tag.GeoJSON,
              Tag.CSV, Tag.SceneLayer, Tag.PointCloudLayer, Tag.IntegratedMeshLayer,
              Tag.BuildingSceneLayer, Tag.FeatureLayer, Tag.Feature_Layer}

\* the optional fields varied for a type: those its branch reads, and for
\* TileLayer and the unmatched types the ones the fall-through reads
VariedFields(typed, tag) ==
    IF ~typed \/ tag \in {Tag.tilelayer, Tag.kml, Tag.FEATURELAYER, Tag.FooLayer} THEN {"featureSet", "layerDefinition", "options"}
    ELSE IF tag = Tag.TileLayer THEN {"featureSet", "options", "renderer"}
    ELSE IF tag = Tag.ImageryLayer THEN {"capabilities"}
    ELSE IF tag = Tag.WMS THEN {"sublayers"}
    ELSE IF tag = Tag.GeoJSON THEN {"data", "renderer"}
    ELSE IF tag = Tag.CSV THEN {"layerDefinition"}
    ELSE IF tag \in {Tag.FeatureLayer, Tag.Feature_Layer} THEN {"options", "renderer"}
    ELSE {"featureSet"}

\* the descriptors of one type: every subset of its varied fields, options with
\* and without a renderer, both capabilities values, empty and non-empty data
DescriptorsOf(typed, tag) ==
    { Descriptor(typed, tag, f, o, c, dt, h) :
        <<f, o, c, dt, h>> \in
          { v \in (SUBSET VariedFields(typed, tag)) \X (SUBSET {"renderer"})
                    \X {"", "tilesOnly", "Image"} \X {{}, {"features"}}
                    \X {Hashes[1], Hashes[2]} :
              /\ ("options" \notin v[1]) => (v[2] = {})
              /\ ("capabilities" \in v[1]) <=> (v[3] # "")
              /\ ("data" \notin v[1]) => (v[4] = {}) } }

Descriptors ==
    DescriptorsOf(FALSE, <<>>)
        \cup UNION { DescriptorsOf(TRUE, tag) : tag \in KnownTags \cup {Tag.tilelayer, Tag.kml, Tag.FEATURELAYER, Tag.FooLayer} }

\* one or two descriptors for each branch: the one with none of the varied
\* fields and the one with all of them
BranchDescriptors ==
    { Descriptor(typed, tag, f, o, c, {"features"}, h) :
        <<typed, tag, f, o, c, h>> \in
          { v \in BOOLEAN \X (KnownTags \cup {Tag.FooLayer, <<>>})
                    \X (SUBSET {"featureSet", "layerDefinition", "options", "renderer",
                                "capabilities", "sublayers", "data"})
                    \X (SUBSET {"renderer"}) \X {"", "tilesOnly"}
                    \X {Hashes[i] : i \in DOMAIN Hashes} :
              /\ v[1] <=> (v[2] # <<>>)
              /\ v[3] \in {{}, VariedFields(v[1], v[2])}
              /\ v[4] = (IF "options" \in v[3] THEN {"renderer"} ELSE {})
              /\ v[5] = (IF "capabilities" \in v[3] THEN "tilesOnly" ELSE "") } }

----------------------------------------------------------------------------
(* The view: asynchronous continuations, surface events, store mutations *)

\* the callbacks of watchUtils.once(this._SceneView, "camera", ...), run in
\* the order they were registered once the camera exists
RECURSIVE GoTo(_, _)
GoTo(camera, watches) ==
    IF watches = <<>> THEN camera
    ELSE GoTo(IF Head(watches).prop = "heading"
              THEN [camera EXCEPT !.heading = Head(watches).angle]
              ELSE [camera EXCEPT !.tilt = Head(watches).angle],
              Tail(watches))

\* _applyHeading / _applyTilt: at once when this._SceneView.camera exists,
\* else when the camera is ready
GoToOrWatch(w, prop, angle) ==
    IF w._SceneView.camera.exists
    THEN [w EXCEPT !._SceneView.camera =
                       GoTo(@, <<[prop |-> prop, angle |-> angle]>>)]
    ELSE [w EXCEPT !._SceneView.cameraWatch =
                       Append(@, [prop |-> prop, angle |-> angle])]

\* the .then callback of mode_changed: the view of the mode gets the container
\* and a new map with the ground, the basemap and the layers of this.map, the
\* other view gets no map; a view has a viewpoint, its center, scale and
\* rotation, once it is ready
ModeApplied(w) ==
    LET scene == ModeToLowerCase(w.attrs.mode) = "3d"
        v == IF scene THEN "_SceneView" ELSE "_MapView"
        other == IF scene THEN "_MapView" ELSE "_SceneView"
        w1 == IF w[w.activeView].ready
              THEN [w EXCEPT ![v].center = w[w.activeView].center,
                             ![v].scale = w[w.activeView].scale,
                             ![v].rotation = w[w.activeView].rotation,
                             ![w.activeView].container = FALSE]
              ELSE w
        w2 == [w1 EXCEPT ![v].container = TRUE,
                         ![v].map = "this",
                         ![other].map = "null",
                         !.activeView = v,
                         !.map = NewMap(IF scene THEN "WebScene" ELSE "WebMap",
                                        w.map.ground, w.map.basemap, w.map.layers),
                         !.old = NewMap("none", "", "", <<>>)]
        w3 == IF scene THEN w2 ELSE save_changes(model_set(w2, "tilt", <<0>>))
    IN  [time_slider_prop_changed(legend_prop_changed(w3)) EXCEPT !.map.listener = TRUE]

\* this.model.set(modelStr, v) for each modelStr of modelStrsToSendTo
RECURSIVE SetEach(_, _, _)
SetEach(w, modelStrsToSendTo, v) ==
    IF modelStrsToSendTo = {} THEN w
    ELSE LET modelStr == CHOOSE a \in modelStrsToSendTo : TRUE
         IN  SetEach(model_set(w, modelStr, v), modelStrsToSendTo \ {modelStr}, v)

\* a _postLoadSetup that installs the click handler on the MapView only
_postLoadSetup_MapViewOnly(w) ==
    [w EXCEPT !._MapView.clickHandler = TRUE]

\* _postLoadSetup: the when callbacks of the two views are in view_when; the
\* click handlers are installed on both views
_postLoadSetup(w) ==
    [w EXCEPT !._MapView.clickHandler = TRUE, !._SceneView.clickHandler = TRUE]

\* the .then callback of the esriLoader.loadModules(...) that load l stands
\* for, or of takeScreenshot.  save_webscene goes on to authenticate and to
\* save the scene to the portal item named by the attribute, whatever its value
\* webscene_changed authenticates too, with the portal the initial load set
\* up, and webscene.load stands for the pending load of the scene
LoadThen(w, l) ==
    LET w0 == [w EXCEPT !.loads = @ \ {l}]
    IN  CASE l.fn = "mode_changed" -> ModeApplied(w0)
          [] l.fn = "basemap_changed" -> [w0 EXCEPT !.map.basemap = w.attrs._basemap]
          [] l.fn = "apply_heading_to_view" -> GoToOrWatch(w0, "heading", l.angle)
          [] l.fn = "apply_tilt_to_view" -> GoToOrWatch(w0, "tilt", l.angle)
          [] l.fn = "apply_extent_to_view" ->
                IF l.extent.class = "null" THEN _displayErrorBox(w0, Message.ErrExtent, TRUE)
                ELSE IF l.extent.xmin # 0
                THEN StartLoad([w0 EXCEPT ![w.activeView].extent = Extent(l.extent)],
                               "projection.load", 0, l.extent)
                ELSE w0
          [] l.fn = "projection.load" ->
                [w0 EXCEPT ![w.activeView].extent = Project(Extent(l.extent))]
          [] l.fn = "js_cdn_changed" ->
                [w0 EXCEPT !.corsEnabledServers = @ \cup {w.attrs._js_cdn_override}]
          [] l.fn = "save_webscene" ->
                [w0 EXCEPT !.invoked._trigger_webscene_save_to_this_portal_id = @ + 1]
          [] l.fn = "_capture_screenshot_send_to" ->
                save_changes(SetEach(w0, l.sendTo, "data:image/png;base64"))
          [] l.fn = "interactive_draw_shape" ->
                LET shape == w.attrs._trigger_interactive_draw_mode_for
                IN  IF shape # ""
                    THEN [getGraphicsLayer(w0)
                             EXCEPT !.sketches = Append(@, [shape |-> shape, state |-> "start"]),
                                    !.invoked._trigger_interactive_draw_mode_for = @ + 1]
                    ELSE w0
          [] l.fn = "center_long_lat_changed" ->
                LET _center_long_lat == w.attrs._center_long_lat
                IN  IF Len(_center_long_lat) = 2
                    THEN [w0 EXCEPT ![w.activeView].centerWatch = TRUE,
                                    ![w.activeView].center =
                                        FromLongLat(_center_long_lat)]
                    ELSE w0
          [] l.fn = "webmap_changed" ->
                IF w.attrs._webmap.keys # {}
                THEN ReplaceMap(w0, "_MapView", MapFromJSON("WebMap", w.attrs._webmap))
                ELSE w0
          [] l.fn = "webscene_changed" ->
                IF w.attrs._webscene.keys # {}
                THEN StartWith(w0, "webscene.load", w.attrs._webscene.layers)
                ELSE w0
          [] l.fn = "webscene.load" ->
                ReplaceMap(w0, "_SceneView",
                           MapFromJSON("WebScene", [layers |-> l.args]))
          [] l.fn = "add_graphic" ->
                LET w1 == getGraphicsLayer(w0)
                    i == findLayerById(w1.map.layers, graphicsLayerId)
                IN  [w1 EXCEPT !.map.layers[i].items = Append(@, l.args[1])]
          [] l.fn = "overlay_this_image" ->
                LET w1 == getActiveImageOverlayLayer(w0)
                    i == findLayerById(w1.map.layers, imageOverlayLayerId)
                IN  StartWith(w1, "tryOverlayImage", <<l.args[1], w1.map.layers[i].uid>>)
          [] l.fn = "tryOverlayImage" ->
                [w0 EXCEPT !.map.layers =
                    [i \in DOMAIN @ |->
                        IF @[i].uid = l.args[2]
                        THEN [@[i] EXCEPT !.items = Append(@, l.args[1])]
                        ELSE @[i]]]
          [] l.fn = "image_overlays_to_remove_changed" ->
                LET w1 == getActiveImageOverlayLayer(w0)
                    i == findLayerById(w1.map.layers, imageOverlayLayerId)
                IN  [w1 EXCEPT !.map.layers[i].items =
                                   tryRemoveImageOverlays(@, l.args, 1)]
          [] OTHER -> w0

\* the .catch callback of the same chain; projection.load() has none
LoadCatch(w, l) ==
    LET w0 == [w EXCEPT !.loads = @ \ {l}]
    IN  CASE l.fn = "mode_changed" -> _displayErrorBox(w0, Message.NoMessage, TRUE)
          [] l.fn = "basemap_changed" -> _displayErrorBox(w0, Message.ErrBasemap, TRUE)
          [] l.fn = "apply_heading_to_view" -> _displayErrorBox(w0, Message.ErrHeading, TRUE)
          [] l.fn = "apply_tilt_to_view" -> w0
          [] l.fn = "apply_extent_to_view" -> _displayErrorBox(w0, Message.ErrExtent, TRUE)
          [] l.fn = "projection.load" ->
                [w0 EXCEPT !.unhandled = @ \cup {"projection.load()"}]
          [] l.fn = "center_long_lat_changed" ->
                _displayErrorBox(w0, Message.ErrCenterLongLat, TRUE)
          [] l.fn = "webmap_changed" -> _displayErrorBox(w0, Message.ErrWebmap, TRUE)
          [] l.fn = "webscene_changed" -> _displayErrorBox(w0, Message.ErrWebscene, TRUE)
          [] l.fn = "time_info_changed" -> _displayErrorBox(w0, Message.ErrTimeInfo, TRUE)
          [] l.fn = "save_webscene" -> _displayErrorBox(w0, Message.ErrSaveWebscene, TRUE)
          [] l.fn = "_capture_screenshot_send_to" ->
                save_changes(SetEach(_displayErrorBox(w0, Message.ErrScreenshot, TRUE),
                                     l.sendTo, "screenshotErrorEncoded"))
          [] l.fn = "interactive_draw_shape" ->
                _displayErrorBox(w0, Message.ErrDrawShape, TRUE)
          [] l.fn = "webscene.load" -> _displayErrorBox(w0, Message.ErrWebsceneItem, TRUE)
          [] l.fn = "add_graphic" -> _displayErrorBox(w0, Message.ErrGraphics, TRUE)
          [] l.fn \in {"overlay_this_image", "image_overlays_to_remove_changed"} ->
                _displayErrorBox(w0, Message.ErrOverlayType, TRUE)
          [] l.fn = "tryOverlayImage" -> _displayErrorBox(w0, Message.ErrOverlay, TRUE)
          [] OTHER -> w0

\* the callback of the watch leaving _center_long_lat as it is
center_once_KeepsList(v) ==
    /\ widget[v].centerWatch
    /\ LET w0 == [widget EXCEPT ![v].centerWatch = FALSE]
           w1 == model_set(w0, "_center", JSONClone(w0[w0.activeView].center))
           w2 == IF w1.attrs._center # w0.attrs._center
                 THEN Call(w1, "center_changed") ELSE w1
       IN  widget' = save_changes(w2)
    /\ UNCHANGED <<authVars, layerVars, events>>

\* the callback center_long_lat_changed gave watchUtils.once for the center of
\* view v: _center and _center_long_lat are set and saved; change:_center
\* and change:_center_long_lat run their handlers as the attributes are set
center_once(v) ==
    /\ widget[v].centerWatch
    /\ LET w0 == [widget EXCEPT ![v].centerWatch = FALSE]
           view_center == JSONClone(w0[w0.activeView].center)
           w1 == model_set(w0, "_center", view_center)
           w2 == IF w1.attrs._center # w0.attrs._center
                 THEN Call(w1, "center_changed") ELSE w1
           w3 == model_set(w2, "_center_long_lat", <<>>)
           w4 == IF w3.attrs._center_long_lat # w2.attrs._center_long_lat
                 THEN Call(w3, "center_long_lat_changed") ELSE w3
       IN  widget' = save_changes(w4)
    /\ UNCHANGED <<authVars, layerVars, events>>

load_then(l) ==
    /\ widget' = LoadThen(widget, l)
    /\ UNCHANGED <<authVars, layerVars, events>>

load_catch(l) ==
    /\ events.failures < MaxFailures
    /\ widget' = LoadCatch(widget, l)
    /\ events' = [events EXCEPT !.failures = @ + 1]
    /\ UNCHANGED <<authVars, layerVars>>

\* render(): the .catch of esriLoader.loadModules
render_catch ==
    /\ ~started
    /\ ~widget.renderFailed
    /\ widget' = [_displayErrorBox(widget, Message.NoMessage, TRUE) EXCEPT !.renderFailed = TRUE]
    /\ UNCHANGED <<authVars, layerVars, events>>

\* update_widget_from_model: the .then of authenticate_to_portal(), in which
\* draw_these_notype_layers_on_widget_load calls add_notype_layer, and so
\* inferNoTypeLayer, for each layer of the attribute; then resolve(), and with
\* it _postLoadSetup in render()
update_widget_from_model_then ==
    /\ widget.loadPromise = "pending"
    /\ calls[1].pc = "resolved"
    /\ widget' = _postLoadSetup([RunSteps(widget, StepsAfterAuth)
                                     EXCEPT !.loadPromise = "resolved"])
    /\ LET layers == widget.attrs._draw_these_notype_layers_on_widget_load
       IN  requests' = requests \o [i \in DOMAIN layers |-> NewRequest(layers[i])]
    /\ UNCHANGED <<authVars, events>>

\* update_widget_from_model: the .catch of authenticate_to_portal(); nothing
\* handles the rejection of the promise render() chained its .then on
update_widget_from_model_catch ==
    /\ widget.loadPromise = "pending"
    /\ calls[1].pc = "rejected"
    /\ widget' = [_displayErrorBox(widget, Message.ErrFirstLoadAuth, TRUE)
                     EXCEPT !.loadPromise = "rejected",
                            !.unhandled = @ \cup {"update_widget_from_model().then()"}]
    /\ UNCHANGED <<authVars, layerVars, events>>

\* add_notype_layer: inferNoTypeLayer(...).then: this.map.add(typedLayer)
add_notype_layer_then(i) ==
    /\ i \notin widget.added
    /\ requests[i].pc = "resolved"
    /\ widget' = set_map_layers([widget EXCEPT !.added = @ \cup {i}],
                                Append(widget.map.layers,
                                       [id |-> requests[i].layer.id, kind |-> "Layer",
                                        uid |-> 0, items |-> <<>>]))
    /\ UNCHANGED <<authVars, layerVars, events>>

\* add_notype_layer: inferNoTypeLayer(...).catch
add_notype_layer_catch(i) ==
    /\ i \notin widget.added
    /\ requests[i].pc = "rejected"
    /\ widget' = [_displayErrorBox(widget, Append(Message.ErrUpdateLayer, requests[i].err), TRUE)
                     EXCEPT !.added = @ \cup {i}]
    /\ UNCHANGED <<authVars, layerVars, events>>

\* _httpGetAsync: fetch(...).then with a 2xx status
httpGet_fetch_then ==
    /\ widget.httpGet = "fetch"
    /\ widget' = [widget EXCEPT !.httpGet = "text"]
    /\ UNCHANGED <<authVars, layerVars, events>>

\* _httpGetAsync: fetch(...).then with another status: reject(...), which the
\* .catch of _check_js_api_version_loaded logs
httpGet_fetch_then_status ==
    /\ widget.httpGet = "fetch"
    /\ widget' = [widget EXCEPT !.httpGet = "rejected"]
    /\ UNCHANGED <<authVars, layerVars, events>>

\* fetch(...) rejects: _httpGetAsync chains no .catch on it, its promise stays
\* pending
httpGet_fetch_rejected ==
    /\ widget.httpGet = "fetch"
    /\ widget' = [widget EXCEPT !.httpGet = "pendingForever",
                                !.unhandled = @ \cup {"fetch().then()"}]
    /\ UNCHANGED <<authVars, layerVars, events>>

\* response.text().then: resolve(data), then the .then of
\* _check_js_api_version_loaded looks for the version in the response
httpGet_text_then(version) ==
    /\ widget.httpGet = "text"
    /\ widget' = [(CASE version = "old" -> _displayErrorBox(widget, Message.WarnOldJSAPI, FALSE)
                     [] version = "unknown" ->
                            _displayErrorBox(widget, Message.WarnNoJSAPIVersion, FALSE)
                     [] OTHER -> widget)
                     EXCEPT !.httpGet = "resolved"]
    /\ UNCHANGED <<authVars, layerVars, events>>

\* response.text().catch: reject(err)
httpGet_text_catch ==
    /\ widget.httpGet = "text"
    /\ widget' = [widget EXCEPT !.httpGet = "rejected"]
    /\ UNCHANGED <<authVars, layerVars, events>>

\* the derived values an esri view reports: after a pan or zoom, while a
\* transition is under way, and partly valid
Snapshot ==
    [Moved |->
        [zoom |-> 4, scale |-> 500, rotation |-> 90,
         camera |-> [exists |-> TRUE, heading |-> 90, tilt |-> 45],
         center |-> PointOf("Point", 30, 40),
         extent |-> ExtentOf("Extent", 300, 400)],
     Transitional |->
        [zoom |-> -1, scale |-> 0, rotation |-> -1, camera |-> NoCamera,
         center |-> PointOf("null", 0, 0), extent |-> ExtentOf("null", 0, 0)],
     ZoomOnly |->
        [zoom |-> 4, scale |-> 0, rotation |-> -1, camera |-> NoCamera,
         center |-> PointOf("null", 0, 0), extent |-> ExtentOf("Extent", 300, 400)],
     ScaleOnly |->
        [zoom |-> -1, scale |-> 500, rotation |-> 90,
         camera |-> [exists |-> TRUE, heading |-> 90, tilt |-> 45],
         center |-> PointOf("Point", 30, 40), extent |-> ExtentOf("null", 0, 0)]]

\* the values of a view that has just become ready: the zoom, the rotation,
\* the centre and the extent are what the widget assigned, where it did
Home(view) ==
    [zoom |-> view.zoom, scale |-> 1000, rotation |-> view.rotation,
     camera |-> [exists |-> TRUE, heading |-> 0, tilt |-> 0],
     center |-> IF view.center.class # "null" THEN view.center ELSE PointOf("Point", 1, 1),
     extent |-> IF view.extent.class # "null" THEN view.extent
                ELSE Extent(ExtentOf("Object", 1, 2))]

\* the view v takes the derived values s; a MapView has no camera
Show(w, v, s) ==
    LET camera == IF v = "_SceneView" /\ s.camera.exists
                  THEN GoTo(s.camera, w[v].cameraWatch)
                  ELSE NoCamera
    IN  [w EXCEPT ![v].zoom = s.zoom, ![v].scale = s.scale,
                  ![v].rotation = IF v = "_MapView" THEN s.rotation ELSE @,
                  ![v].camera = camera,
                  ![v].cameraWatch = IF camera.exists THEN <<>> ELSE @,
                  ![v].center = s.center, ![v].extent = s.extent]

\* zoom >= 0 without the test
ZoomIsValid_Always(zoom) == TRUE
\* if(zoom >= 0) in _commonStationaryCallback
ZoomIsValid(zoom) == zoom >= 0

_commonStationaryCallback(w) ==
    LET view == w[w.activeView]
        w1 == IF ZoomIsValid(view.zoom) THEN model_set(w, "_readonly_zoom", view.zoom)
              ELSE w
        w2 == IF view.scale >= 1
              THEN model_set(w1, "_readonly_scale", view.scale) ELSE w1
        w3 == IF view.center.class # "null"
              THEN model_set(w2, "_readonly_center", JSONClone(view.center)) ELSE w2
        w4 == IF view.extent.class # "null"
              THEN model_set(w3, "_readonly_extent", JSONClone(view.extent)) ELSE w3
    IN  save_changes(w4)

_2dStationaryCallback(w) ==
    LET rotation == w._MapView.rotation
        heading == 360 - rotation
    IN  _commonStationaryCallback(
            IF rotation >= 0
            THEN apply_heading_to_view(
                     model_set(model_set(w, "_readonly_rotation", rotation),
                               "_readonly_heading", heading),
                     heading)
            ELSE w)

_3dStationaryCallback(w) ==
    LET camera == w._SceneView.camera
        rotation == 360 - camera.heading
    IN  _commonStationaryCallback(
            IF camera.exists
            THEN model_set(
                     apply_rotation_to_view(
                         model_set(model_set(w, "_readonly_heading", camera.heading),
                                   "_readonly_rotation", rotation),
                         rotation),
                     "_readonly_tilt", camera.tilt)
            ELSE w)

\* the callback watchUtils.when(view, "stationary", ...) registered for view v
StationaryCallback(w, v) ==
    IF v = "_MapView" THEN _2dStationaryCallback(w) ELSE _3dStationaryCallback(w)

\* the view that holds the container becomes ready
view_ready(v) ==
    /\ started
    /\ v = widget.activeView
    /\ ~widget[v].ready
    /\ widget' = [Show(widget, v, Home(widget[v])) EXCEPT ![v].ready = TRUE]
    /\ UNCHANGED <<authVars, layerVars, events>>

\* the when callback of view v, were it registered in render() and not in
\* _postLoadSetup
view_when_BeforeLoad(v) ==
    /\ started
    /\ widget[v].ready
    /\ ~widget[v].pointerMoveHandler
    /\ ~widget[v].stationaryWatch
    /\ LET w1 == model_set(widget, "ready", TRUE)
           w2 == model_set(w1, "_readonly_extent", widget[v].extent)
           w3 == save_changes(model_set(w2, "_readonly_center", widget[v].center))
           w4 == zoom_changed(w3)
           w5 == IF v = "_SceneView" THEN tilt_changed(w4) ELSE w4
       IN  widget' = [w5 EXCEPT ![v].pointerMoveHandler = TRUE]
    /\ UNCHANGED <<authVars, layerVars, events>>

\* _postLoadSetup: the callback of this._MapView.when / this._SceneView.when
view_when(v) ==
    /\ widget.loadPromise = "resolved"
    /\ widget[v].ready
    /\ ~widget[v].pointerMoveHandler
    /\ ~widget[v].stationaryWatch
    /\ LET w1 == model_set(widget, "ready", TRUE)
           w2 == model_set(w1, "_readonly_extent", widget[v].extent)
           w3 == save_changes(model_set(w2, "_readonly_center", widget[v].center))
           w4 == zoom_changed(w3)
           w5 == IF v = "_SceneView" THEN tilt_changed(w4) ELSE w4
       IN  widget' = [w5 EXCEPT ![v].pointerMoveHandler = TRUE]
    /\ UNCHANGED <<authVars, layerVars, events>>

\* the first 'pointer-move' or 'key-down' on view v: the stationary callback is
\* set up, and runs at once as the view is stationary
pointer_move(v) ==
    /\ widget[v].pointerMoveHandler
    /\ widget' = StationaryCallback([widget EXCEPT ![v].pointerMoveHandler = FALSE,
                                                   ![v].stationaryWatch = TRUE], v)
    /\ UNCHANGED <<authVars, layerVars, events>>

\* the user pans, zooms or rotates the ready view v, which comes to rest with
\* the derived values s
view_moves(v, s) ==
    /\ events.moves < MaxMoves
    /\ v = widget.activeView
    /\ widget[v].ready
    /\ widget' = IF widget[v].stationaryWatch
                 THEN StationaryCallback(Show(widget, v, s), v)
                 ELSE Show(widget, v, s)
    /\ events' = [events EXCEPT !.moves = @ + 1]
    /\ UNCHANGED <<authVars, layerVars>>

\* the watched view v comes to rest after a change the widget made to it
view_stationary(v) ==
    /\ events.moves < MaxMoves
    /\ v = widget.activeView
    /\ widget[v].ready
    /\ widget[v].stationaryWatch
    /\ widget' = StationaryCallback(widget, v)
    /\ events' = [events EXCEPT !.moves = @ + 1]
    /\ UNCHANGED <<authVars, layerVars>>


\* the user moves the time slider: the watch on this._time_slider.values
time_slider_values_changed(values) ==
    /\ started
    /\ events.moves < MaxMoves
    /\ widget' = set_time_slider_values(widget, values)
    /\ events' = [events EXCEPT !.moves = @ + 1]
    /\ UNCHANGED <<authVars, layerVars>>

\* the user clicks on view v at mapPoint, which is null beside the globe of a
\* scene: the handler _postLoadSetup installed sends the event to the Python side
click(v, mapPoint) ==
    /\ started
    /\ events.moves < MaxMoves
    /\ v = widget.activeView
    /\ widget' = IF widget[v].clickHandler
                 THEN [widget EXCEPT !.sent = Append(@, [event |-> "mouseclick",
                                                         message |-> mapPoint])]
                 ELSE widget
    /\ events' = [events EXCEPT !.moves = @ + 1]
    /\ UNCHANGED <<authVars, layerVars>>

\* sketch i emits "create" with event.state = state: the handler
\* interactive_draw_shape registered sends the geometry of a complete graphic
sketch_create(i, state) ==
    /\ events.moves < MaxMoves
    /\ widget.sketches[i].state \notin {"complete", "cancel"}
    /\ widget' = [widget EXCEPT
                    !.sketches[i].state = state,
                    !.sent = IF state = "complete"
                             THEN Append(@, [event |-> "draw-end",
                                             message |-> widget.sketches[i].shape])
                             ELSE @]
    /\ events' = [events EXCEPT !.moves = @ + 1]
    /\ UNCHANGED <<authVars, layerVars>>

\* the values the Python side gives the write-only and the trigger
\* attributes; 0, {} and "" are the defaults of the model
SignalsOf ==
    [_link_writeonly_rotation |-> {0, 90},
     _link_writeonly_heading |-> {0, 90},
     _link_writeonly_tilt |-> {0, 45},
     _link_writeonly_extent |-> {ExtentOf("{}", 0, 0), ExtentOf("Object", 100, 200)},
     _trigger_webscene_save_to_this_portal_id |-> {"", "item1"},
     _trigger_screenshot_with_args |-> {{}, {"set_as_preview"}, {"output_in_cell", "file_path"}},
     _trigger_interactive_draw_mode_for |-> {"", "polygon"},
     _trigger_new_jlab_window_with_args |-> {{}, {"title"}}]

\* the values the Python side gives the read-write draw state attributes and
\* the message attribute; -1, 0, {} and "" are the defaults of the model
ValuesOf ==
    [_zoom |-> {-1, 0, 4},
     _scale |-> {-1, 0, 500},
     _rotation |-> {0, 90},
     _heading |-> {0, 90},
     _tilt |-> {0, 90},
     _center |-> {PointOf("{}", 0, 0), PointOf("Object", 10, 20)},
     _extent |-> {ExtentOf("{}", 0, 0), ExtentOf("Object", 100, 200),
                  ExtentOf("Object", 0, 50)},
     _custom_msg |-> {<<>>, <<"Layer added.">>, <<"Try again.">>}]

\* the Python side sets attr to v: the change handler registered for attr runs
store_set(attr, v) ==
    /\ started
    /\ events.sets < MaxSets
    /\ v # widget.attrs[attr]
    /\ LET w1 == [widget EXCEPT !.attrs[attr] = v]
       IN  widget' = IF attr \in DOMAIN widget.handlers
                     THEN Call(w1, widget.handlers[attr])
                     ELSE w1
    /\ events' = [events EXCEPT !.sets = @ + 1]
    /\ UNCHANGED <<authVars, layerVars>>

----------------------------------------------------------------------------
(* Specifications *)

\* the dispatcher applied to one descriptor drawn from Descriptors
InitInfer ==
    /\ InitAuth
    /\ model = ModelDefaults
    /\ globalTokenLookup = <<>>
    /\ requests \in { <<NewRequest(d)>> : d \in Descriptors }

NextInfer ==
    \/ \E i \in DOMAIN requests : inferNoTypeLayer_loadModules_catch(i)
    \/ \E i \in DOMAIN requests : inferNoTypeLayer_then(i)
    \/ \E i \in DOMAIN requests : featureLayer_load_then(i)
    \/ \E i \in DOMAIN requests : featureLayer_load_catch(i)
    \/ \E i \in DOMAIN requests : inferRenderer_then(i)
    \/ \E i \in DOMAIN requests : inferRenderer_catch(i)

SpecInfer == InitInfer /\ [][NextInfer]_vars

\* up to MaxRequests resolutions in flight at once
InitLayers ==
    /\ InitAuth
    /\ model = ModelDefaults
    /\ globalTokenLookup = <<>>
    /\ requests = <<>>

NextLayers ==
    \/ \E d \in BranchDescriptors : inferNoTypeLayer(d)
    \/ NextInfer

SpecLayers == InitLayers /\ [][NextLayers]_vars

\* one stored descriptor resolved on load and again by reload_all_layers
NextReload ==
    \/ reload_all_layers
    \/ NextInfer

SpecReload == InitInfer /\ [][NextReload]_vars

\* the view as constructed
Init == InitAuth /\ requests = <<>>

\* the authentication gate alone
SpecAuth == Init /\ [][NextAuth]_vars

InitLoad ==
    /\ started = FALSE
    /\ model \in {[ModelDefaults EXCEPT !._auth_mode = m] : m \in {Str.anonymous, Str.empty}}
    /\ _portalToken = Undefined
    /\ globalTokenLookup = <<>>
    /\ esriConfig = [portalUrl |-> "https://www.arcgis.com", trustedServers |-> <<>>]
    /\ IdentityManager = [servers |-> {}, tokens |-> {}]
    /\ portals = <<>>
    /\ _portal = NoPortal
    /\ calls = <<>>
    /\ requests = <<>>
    /\ widget \in {js_cdn_changed(NewWidget(c.mode, c.cdn, c.layers)) :
                       c \in {[mode |-> "2D", cdn |-> "", layers |-> <<>>],
                              [mode |-> "3D", cdn |-> "", layers |-> <<>>],
                              [mode |-> "3D", cdn |-> "https://cdn/",
                               layers |-> <<Descriptor(TRUE, Tag.TileLayer, {}, {}, "", {},
                                                       Hashes[1])>>]}}
    /\ events = [sets |-> 0, moves |-> 0, failures |-> 0]

NextLoad ==
    \/ render_catch
    \/ update_widget_from_model
    \/ \E c \in DOMAIN calls : authenticate_loadModules_catch(c)
    \/ \E c \in DOMAIN calls : authenticate_then(c)
    \/ \E c \in DOMAIN calls : portal_load_then(c)
    \/ \E c \in DOMAIN calls : portal_load_catch(c)
    \/ update_widget_from_model_then
    \/ update_widget_from_model_catch
    \/ \E l \in widget.loads : load_then(l)
    \/ \E l \in widget.loads : load_catch(l)
    \/ \E i \in DOMAIN requests : inferNoTypeLayer_loadModules_catch(i)
    \/ \E i \in DOMAIN requests : inferNoTypeLayer_then(i)
    \/ \E i \in DOMAIN requests : add_notype_layer_then(i)
    \/ \E i \in DOMAIN requests : add_notype_layer_catch(i)
    \/ httpGet_fetch_then
    \/ httpGet_fetch_then_status
    \/ httpGet_fetch_rejected
    \/ \E version \in {"recent", "old", "unknown"} : httpGet_text_then(version)
    \/ httpGet_text_catch

SpecLoad == InitLoad /\ [][NextLoad]_vars

\* every pending load of w has run its .then callback
RECURSIVE Settled(_)
Settled(w) ==
    IF w.loads = {} THEN w ELSE Settled(LoadThen(w, CHOOSE l \in w.loads : TRUE))

\* the view once the initial load of a widget with default attributes has
\* gone through, anonymously authenticated
LoadedWidget(mode) ==
    Settled(_postLoadSetup([RunSteps(Settled(RenderThen(NewWidget(mode, "", <<>>))),
                                     StepsAfterAuth)
                               EXCEPT !.loadPromise = "resolved"]))

\* the attribute bridge: the store and the surface after the initial load
ViewNames == {"_MapView", "_SceneView"}
InitBridge ==
    /\ started = TRUE
    /\ model = [ModelDefaults EXCEPT !._auth_mode = Str.anonymous]
    /\ _portalToken = Undefined
    /\ globalTokenLookup = <<>>
    /\ esriConfig = [portalUrl |-> "https://www.arcgis.com", trustedServers |-> <<>>]
    /\ IdentityManager = [servers |-> {}, tokens |-> {}]
    /\ portals = <<[authMode |-> "anonymous", url |-> "", loaded |-> TRUE, failed |-> FALSE]>>
    /\ _portal = 1
    /\ calls = <<[NewCall EXCEPT !.pc = "resolved", !.own = 1, !.result = 1]>>
    /\ requests = <<>>
    /\ widget \in {LoadedWidget(mode) : mode \in {"2D", "3D"}}
    /\ events = [sets |-> 0, moves |-> 0, failures |-> 0]

NextBridge ==
    \/ \E attr \in DOMAIN ValuesOf : \E v \in ValuesOf[attr] : store_set(attr, v)
    \/ \E v \in ViewNames : view_ready(v)
    \/ \E v \in ViewNames : view_when(v)
    \/ \E v \in ViewNames : pointer_move(v)
    \/ \E v \in ViewNames : \E n \in DOMAIN Snapshot : view_moves(v, Snapshot[n])
    \/ \E v \in ViewNames : view_stationary(v)
    \/ \E values \in {<<>>, <<"start">>, <<"start", "end">>} : time_slider_values_changed(values)
    \/ \E l \in widget.loads : load_then(l)
    \/ \E l \in widget.loads : load_catch(l)

SpecBridge == InitBridge /\ [][NextBridge]_vars

\* the write-only and the trigger attributes, the clicks and the sketches after
\* the initial load, in a notebook and in JupyterLab
InitSignals ==
    /\ started = TRUE
    /\ model = [ModelDefaults EXCEPT !._auth_mode = Str.anonymous]
    /\ _portalToken = Undefined
    /\ globalTokenLookup = <<>>
    /\ esriConfig = [portalUrl |-> "https://www.arcgis.com", trustedServers |-> <<>>]
    /\ IdentityManager = [servers |-> {}, tokens |-> {}]
    /\ portals = <<[authMode |-> "anonymous", url |-> "", loaded |-> TRUE, failed |-> FALSE]>>
    /\ _portal = 1
    /\ calls = <<[NewCall EXCEPT !.pc = "resolved", !.own = 1, !.result = 1]>>
    /\ requests = <<>>
    /\ widget \in {[LoadedWidget(mode) EXCEPT !.JupyterTarget = target] :
                       mode \in {"2D", "3D"}, target \in {"notebook", "lab"}}
    /\ events = [sets |-> 0, moves |-> 0, failures |-> 0]

NextSignals ==
    \/ \E attr \in DOMAIN SignalsOf : \E v \in SignalsOf[attr] : store_set(attr, v)
    \/ \E v \in ViewNames : view_ready(v)
    \/ \E v \in ViewNames : view_when(v)
    \/ \E v \in ViewNames : \E mapPoint \in {PointOf("Point", 5, 6), PointOf("null", 0, 0)} :
          click(v, mapPoint)
    \/ \E i \in DOMAIN widget.sketches : \E state \in {"start", "active", "complete", "cancel"} :
          sketch_create(i, state)
    \/ \E l \in widget.loads : load_then(l)
    \/ \E l \in widget.loads : load_catch(l)

SpecSignals == InitSignals /\ [][NextSignals]_vars

\* the view when render() has registered the handlers and called
\* update_widget_from_model, and the modules the draw state handlers asked for
\* have loaded: the first authentication is pending, and the user and the
\* Python side act while it is.  A change of _add_this_notype_layer runs
\* add_this_notype_layer_changed, and with it add_notype_layer and
\* inferNoTypeLayer
InitSetup ==
    /\ started = TRUE
    /\ model = [ModelDefaults EXCEPT !._auth_mode = Str.anonymous]
    /\ _portalToken = Undefined
    /\ globalTokenLookup = <<>>
    /\ esriConfig = [portalUrl |-> "https://www.arcgis.com", trustedServers |-> <<>>]
    /\ IdentityManager = [servers |-> {}, tokens |-> {}]
    /\ portals = <<>>
    /\ _portal = NoPortal
    /\ calls = <<NewCall>>
    /\ requests = <<>>
    /\ widget \in {Settled(RenderThen(js_cdn_changed(NewWidget(mode, "", <<>>)))) :
                       mode \in {"2D", "3D"}}
    /\ events = [sets |-> 0, moves |-> 0, failures |-> 0]

NextSetup ==
    \/ \E c \in DOMAIN calls : authenticate_loadModules_catch(c)
    \/ \E c \in DOMAIN calls : authenticate_then(c)
    \/ \E c \in DOMAIN calls : portal_load_then(c)
    \/ \E c \in DOMAIN calls : portal_load_catch(c)
    \/ update_widget_from_model_then
    \/ update_widget_from_model_catch
    \/ \E v \in ViewNames : view_ready(v)
    \/ \E v \in ViewNames : view_when(v)
    \/ \E v \in ViewNames : pointer_move(v)
    \/ \E v \in ViewNames : \E mapPoint \in {PointOf("Point", 5, 6), PointOf("null", 0, 0)} :
          click(v, mapPoint)
    \/ \E v \in SignalsOf._trigger_interactive_draw_mode_for :
          store_set("_trigger_interactive_draw_mode_for", v)
    \/ \E i \in DOMAIN widget.sketches : \E state \in {"start", "active", "complete", "cancel"} :
          sketch_create(i, state)
    \/ \E l \in widget.loads : load_then(l)
    \/ \E l \in widget.loads : load_catch(l)
    \/ inferNoTypeLayer(Descriptor(TRUE, Tag.TileLayer, {}, {}, "", {}, Hashes[1]))
    \/ \E i \in DOMAIN requests : inferNoTypeLayer_loadModules_catch(i)
    \/ \E i \in DOMAIN requests : inferNoTypeLayer_then(i)
    \/ \E i \in DOMAIN requests : add_notype_layer_then(i)
    \/ \E i \in DOMAIN requests : add_notype_layer_catch(i)

SpecSetup == InitSetup /\ [][NextSetup]_vars

\* two views of one widget model and the token the Python side supplies
InitToken ==
    /\ started = FALSE
    /\ model \in [_auth_mode : {Str.anonymous, Str.tokenbased}, _portal_url : {"", "https://portal/"},
                  _portal_sharing_rest_url : {"https://portal/"},
                  _portal_token : {"", "tok"}]
    /\ _portalToken = Undefined
    /\ globalTokenLookup = <<>>
    /\ esriConfig = [portalUrl |-> "https://www.arcgis.com", trustedServers |-> <<>>]
    /\ IdentityManager = [servers |-> {}, tokens |-> {}]
    /\ portals = <<>>
    /\ _portal = NoPortal
    /\ calls = <<>>
    /\ requests = <<>>
    /\ widget = NewWidget("2D", "", <<>>)
    /\ events = [sets |-> 0, moves |-> 0, failures |-> 0]

NextToken ==
    \/ update_widget_from_model
    \/ sibling_render
    \/ \E t \in {"", "tok", "tok2"} : set_portal_token(t)
    \/ \E t \in {"", "tok", "tok2"} : sibling_set_portal_token(t)
    \/ \E c \in DOMAIN calls : authenticate_loadModules_catch(c)
    \/ \E c \in DOMAIN calls : authenticate_then(c)
    \/ \E c \in DOMAIN calls : portal_load_then(c)
    \/ \E c \in DOMAIN calls : portal_load_catch(c)

SpecToken == InitToken /\ [][NextToken]_vars

----------------------------------------------------------------------------
(* The overlays of the image overlay layer *)

\* the image overlay layer of the map holds a collection of overlays, named
\* by their ids, and _image_overlays_to_remove names the ones to take down
\* the state after the initial load, anonymously authenticated, with the
\* view among ws and the layer requests rs in flight
InitLoaded(ws, rs) ==
    /\ started = TRUE
    /\ model = [ModelDefaults EXCEPT !._auth_mode = Str.anonymous]
    /\ _portalToken = Undefined
    /\ globalTokenLookup = <<>>
    /\ esriConfig = [portalUrl |-> "https://www.arcgis.com", trustedServers |-> <<>>]
    /\ IdentityManager = [servers |-> {}, tokens |-> {}]
    /\ portals = <<[authMode |-> "anonymous", url |-> "", loaded |-> TRUE, failed |-> FALSE]>>
    /\ _portal = 1
    /\ calls = <<[NewCall EXCEPT !.pc = "resolved", !.own = 1, !.result = 1]>>
    /\ requests = rs
    /\ widget \in ws
    /\ events = [sets |-> 0, moves |-> 0, failures |-> 0]

InitOverlays ==
    InitLoaded({[LoadedWidget("2D") EXCEPT !.map.layers =
                    <<[id |-> imageOverlayLayerId, kind |-> "ImageOverlayLayer",
                       uid |-> 0, items |-> _imagesToOverlay]>>] :
                  _imagesToOverlay \in UNION {[1..n -> {"a", "b", "c"}] : n \in 0..MaxOverlays}},
               <<>>)

NextOverlays ==
    \/ \E ids \in {<<"a">>, <<"b">>, <<"a", "b">>, <<"c", "a">>} :
          store_set("_image_overlays_to_remove", ids)
    \/ \E l \in widget.loads : load_then(l)
    \/ \E l \in widget.loads : load_catch(l)

SpecOverlays == InitOverlays /\ [][NextOverlays]_vars

----------------------------------------------------------------------------
(* The maps of the view: mode changes, web maps, web scenes, layers, graphics
   and image overlays after the initial load *)

\* the values the Python side gives the attributes that change the map
\* the view after the initial load in either mode, while the layer the Python
\* side added with _add_this_notype_layer is being resolved
InitMap ==
    InitLoaded({LoadedWidget(mode) : mode \in {"2D", "3D"}},
               <<NewRequest(Descriptor(TRUE, Tag.TileLayer, {}, {}, "", {}, Hashes[1]))>>)

MapValuesOf ==
    [mode |-> {"2D", "3D", "3d"},
     _basemap |-> {"streets"},
     _webmap |-> {[keys |-> {"operationalLayers"}, layers |-> <<"w1", "w2", "w1">>]},
     _webscene |-> {[keys |-> {"portalItem"}, layers |-> <<"s1">>]},
     _layers_to_remove |-> {<<"h1", "x">>, <<"w1", "x">>},
     _add_this_graphic |-> {[keys |-> {"geometry"}, id |-> "g1"],
                            [keys |-> {"geometry"}, id |-> "g2"]},
     _overlay_this_image |-> {[keys |-> {"src"}, id |-> "a"]},
     _image_overlays_to_remove |-> {<<"a">>},
     _trigger_interactive_draw_mode_for |-> {"polygon"},
     time_slider |-> {TRUE, FALSE},
     time_mode |-> {"instant", "time-window", "cumulative-from-start"}]

\* the user moves the time slider while it is displayed: one value in the
\* instant and cumulative modes of the slider, two in time-window
NextMap ==
    \/ \E attr \in DOMAIN MapValuesOf : \E v \in MapValuesOf[attr] : store_set(attr, v)
    \/ \E v \in ViewNames : view_ready(v)
    \/ \E values \in {<<"start">>, <<"start", "end">>} :
          /\ widget.attrs.time_slider
          /\ Len(values) = IF widget._time_slider.mode = "time-window" THEN 2 ELSE 1
          /\ time_slider_values_changed(values)
    \/ \E l \in widget.loads : load_then(l)
    \/ \E l \in widget.loads : load_catch(l)
    \/ \E i \in DOMAIN requests : inferNoTypeLayer_loadModules_catch(i)
    \/ \E i \in DOMAIN requests : inferNoTypeLayer_then(i)
    \/ \E i \in DOMAIN requests : add_notype_layer_then(i)
    \/ \E i \in DOMAIN requests : add_notype_layer_catch(i)

SpecMap == InitMap /\ [][NextMap]_vars

----------------------------------------------------------------------------
(* The exchange of _center_long_lat and _center *)

\* the lists [long, lat] the Python side gives _center_long_lat
LongLats == {<<10, 20>>, <<30, 40>>, <<0, 0>>}

\* the Python side sets _center_long_lat after the initial load; the module
\* loads of the handlers succeed
NextCenter ==
    \/ \E c \in LongLats : store_set("_center_long_lat", c)
    \/ \E v \in ViewNames : view_ready(v)
    \/ \E l \in widget.loads : load_then(l)
    \/ \E v \in ViewNames : center_once(v)

\* a loaded module runs its callback, and the view whose center was assigned
\* reports the change to the callback waiting for it
SpecCenter ==
    InitBridge /\ [][NextCenter]_vars
        /\ WF_vars(\E l \in widget.loads : load_then(l))
        /\ WF_vars(\E v \in ViewNames : center_once(v))

----------------------------------------------------------------------------
\* the whole view
Next ==
    \/ NextAuth \/ NextLayers \/ NextReload \/ NextLoad \/ NextBridge \/ NextSignals
    \/ NextSetup \/ NextToken \/ NextOverlays \/ NextMap \/ NextCenter
Spec == Init /\ [][Next]_vars

----------------------------------------------------------------------------
(* Properties of the authentication gate *)

\* two strings are equal up to the case of their letters
SameIgnoringCase(a, b) ==
    /\ Len(a) = Len(b)
    /\ \A i \in DOMAIN a :
          \/ a[i] = b[i]
          \/ \E k \in DOMAIN Letters.upper :
                {a[i], b[i]} = {Letters.upper[k], Letters.lower[k]}

\* this step is the body of authenticate_to_portal run for call c
BodyRuns(c) ==
    /\ calls[c].pc = "loadModules"
    /\ calls'[c].pc # "loadModules"
    /\ calls'[c].err # [NoError EXCEPT !.kind = "loadModules"]

\* this step constructs exactly one portal, with the given authMode, for call c
Constructs(c, authMode) ==
    /\ Len(portals') = Len(portals) + 1
    /\ portals'[Len(portals')].authMode = authMode
    /\ calls'[c].pc = "loading"
    /\ calls'[c].own = Len(portals')

\* this step leaves the portals, the registrations and the configuration alone
NoAuthenticationEffect ==
    /\ portals' = portals
    /\ _portal' = _portal
    /\ IdentityManager' = IdentityManager
    /\ esriConfig' = esriConfig

\* the portals whose load() is still pending
PortalsLoading == {p \in DOMAIN portals : ~portals[p].loaded /\ ~portals[p].failed}

\* C1: while one authenticate_to_portal call is pending, further calls construct
\* and load no additional portal: at most one portal load is in flight at any
\* time, and all calls that resolve while it is cached get the same portal.
C1_SingleAuthenticationInFlight ==
    Cardinality(PortalsLoading) <= 1

\* C2: once a call has succeeded, the body of every later call resolves with
\* that same portal and constructs, loads and registers nothing, whatever the
\* model's _auth_mode, _portal_url and token are.
C2_CachedAfterSuccess ==
    [][\A c \in DOMAIN calls : \A k \in DOMAIN calls :
          (BodyRuns(c) /\ calls[k].pc = "resolved")
              => /\ calls'[c].pc = "resolved"
                 /\ calls'[c].result = calls[k].result
                 /\ NoAuthenticationEffect]_vars

\* C3: when a portal load fails, every call waiting for a portal load rejects
\* with that failure; no call ever resolves with a failed portal; and the body
\* of the next call, finding the failed portal, makes a fresh attempt.
C3_FailureRejectsAllWaiters ==
    [][/\ \A c \in DOMAIN calls : \A k \in DOMAIN calls :
             (calls[c].pc = "loading" /\ calls'[c].pc = "rejected"
                  /\ calls[k].pc = "loading")
                 => (calls'[k].pc = "rejected" /\ calls'[k].err = calls'[c].err)
       /\ \A c \in DOMAIN calls :
             (calls[c].pc # "resolved" /\ calls'[c].pc = "resolved")
                 => ~portals'[calls'[c].result].failed
       /\ \A c \in DOMAIN calls :
             (BodyRuns(c) /\ _portal # NoPortal /\ portals[_portal].failed
                  /\ calls'[c].pc # "rejected")
                 => (calls'[c].pc = "loading" /\ calls'[c].own = Len(portals) + 1)]_vars

\* the case of C4: 'tokenbased' mode with one of the three fields empty
TokenbasedWithMissingField ==
    /\ SameIgnoringCase(model._auth_mode, Str.tokenbased)
    /\ \/ model._portal_url = ""
       \/ model._portal_sharing_rest_url = ""
       \/ ~Truthy(get_portal_token)

\* call c is rejected with the message that shows every missing field as empty,
\* and nothing was registered, constructed or changed
RejectedNamingMissingFields(c) ==
    /\ calls'[c].pc = "rejected"
    /\ calls'[c].err.kind = "tokenFields"
    /\ model._portal_url = "" => calls'[c].err.portal_url = ""
    /\ model._portal_sharing_rest_url = "" => calls'[c].err.portal_sharing_rest_url = ""
    /\ ~Truthy(get_portal_token) => ~Truthy(calls'[c].err.portal_token)
    /\ NoAuthenticationEffect

\* C4 as stated: in 'tokenbased' mode with a field missing, the body of
\* authenticate_to_portal always rejects with the validation message, before any
\* registration or portal construction, and changes nothing.
C4_MissingFieldAlwaysRejects ==
    [][\A c \in DOMAIN calls :
          (BodyRuns(c) /\ TokenbasedWithMissingField)
              => RejectedNamingMissingFields(c)]_vars

\* C4 as amended: the same, when no loaded portal is cached (a cached loaded
\* portal is resolved before the mode and the fields are looked at).
C4_MissingFieldRejectsUnlessCached ==
    [][\A c \in DOMAIN calls :
          (BodyRuns(c) /\ TokenbasedWithMissingField /\ ~PortalCached)
              => RejectedNamingMissingFields(c)]_vars

\* a call was rejected for a missing sharing-REST URL
C4_Witness ==
    \E c \in DOMAIN calls :
        /\ calls[c].pc = "rejected"
        /\ calls[c].err.kind = "tokenFields"
        /\ calls[c].err.portal_sharing_rest_url = ""
        /\ calls[c].err.portal_url # ""

\* C5: with no loaded portal cached, the body of authenticate_to_portal takes
\* exactly the branch whose name equals _auth_mode up to letter case:
\* anonymous, tokenbased or prompt; for any other value, the empty default
\* included, it rejects with the _auth_mode message and constructs no portal.
C5_ModeSelection ==
    [][\A c \in DOMAIN calls :
          (BodyRuns(c) /\ ~PortalCached)
              => /\ SameIgnoringCase(model._auth_mode, Str.anonymous)
                        => Constructs(c, "anonymous")
                 /\ SameIgnoringCase(model._auth_mode, Str.tokenbased)
                        => \/ Constructs(c, "auto")
                           \/ calls'[c].err.kind = "tokenFields" /\ portals' = portals
                 /\ SameIgnoringCase(model._auth_mode, Str.prompt)
                        => Constructs(c, "immediate")
                 /\ (/\ ~SameIgnoringCase(model._auth_mode, Str.anonymous)
                     /\ ~SameIgnoringCase(model._auth_mode, Str.tokenbased)
                     /\ ~SameIgnoringCase(model._auth_mode, Str.prompt))
                        => /\ calls'[c].pc = "rejected"
                           /\ calls'[c].err = [NoError EXCEPT !.kind = "authMode"]
                           /\ NoAuthenticationEffect]_vars

\* one call was rejected for its _auth_mode, portals of the tokenbased and prompt
\* kinds were constructed (from 'TokenBased' and 'PROMPT'), and the empty default
\* mode is the current one
C5_Witness ==
    /\ \E c \in DOMAIN calls : calls[c].err = [NoError EXCEPT !.kind = "authMode"]
    /\ \E p \in DOMAIN portals : portals[p].authMode = "immediate"
    /\ \E p \in DOMAIN portals : portals[p].authMode = "auto"
    /\ model._auth_mode = Str.empty

----------------------------------------------------------------------------
(* Properties of the type inference dispatcher *)

\* the .then callback of esriLoader.loadModules has run for request r
HasDispatched(r) == r.pc # "loadModules" /\ r.err # "loadModules"

\* this step is the .then callback of esriLoader.loadModules run for request i
DispatchStep(i) ==
    /\ requests[i].pc = "loadModules"
    /\ HasDispatched(requests'[i])

\* the descriptor of r carries a type tag that is none of the known tags
HasUnknownType(r) == "type" \in r.desc.has /\ r.desc.type \notin KnownTags

\* the descriptor of r never carried a type tag (the WMS branch deletes the
\* type of a descriptor that had one)
HasNoType(r) == "type" \notin r.desc.has /\ r.branch # "WMS"

RejectedAsUnsupported(r) ==
    /\ r.pc = "rejected"
    /\ r.err = "This layer type is not supported."
    /\ r.layer = NoLayer

\* C6 as stated: every descriptor with an unknown type tag is rejected with
\* 'This layer type is not supported.' and no layer is constructed, whatever
\* other fields it carries.
C6_UnknownTypeAlwaysRejects ==
    \A i \in DOMAIN requests :
        (HasUnknownType(requests[i]) /\ HasDispatched(requests[i]))
            => RejectedAsUnsupported(requests[i])

\* C6 as amended: the same for every descriptor with an unknown type tag and no
\* featureSet field (with a featureSet the feature-collection path is taken).
C6_UnknownTypeWithoutFeatureSetRejects ==
    \A i \in DOMAIN requests :
        (HasUnknownType(requests[i]) /\ "featureSet" \notin requests[i].desc.has
                /\ HasDispatched(requests[i]))
            => RejectedAsUnsupported(requests[i])

\* a 'FooLayer' descriptor that carries options and a layerDefinition was rejected
C6_Witness ==
    \E i \in DOMAIN requests :
        /\ requests[i].desc.type = Tag.FooLayer
        /\ {"type", "options", "layerDefinition"} \subseteq requests[i].desc.has
        /\ RejectedAsUnsupported(requests[i])

\* C7: every layer a request resolves carries the _hashFromPython of that
\* request's descriptor as its id, on every branch, so the layers of requests
\* in flight together are told apart whatever the order they complete in.
C7_ResolvedLayerTagged ==
    /\ \A i \in DOMAIN requests :
          requests[i].pc = "resolved"
              => /\ requests[i].layer.kind # "none"
                 /\ requests[i].layer.id = requests[i].desc._hashFromPython
    /\ \A i, j \in DOMAIN requests :
          (i # j /\ requests[i].pc = "resolved" /\ requests[j].pc = "resolved")
              => requests[i].layer.id # requests[j].layer.id

\* the second request resolved its feature-collection layer while the first,
\* a FeatureLayer, was still loading
C7_Witness ==
    /\ Len(requests) = 2
    /\ requests[1].pc = "load"
    /\ requests[2].pc = "resolved"
    /\ requests[2].branch = "featureSet"
    /\ requests[2].layer.id = Hashes[2]

\* the handler each known tag stands for, legacy names mapped to current ones
HandlerOf(tag) ==
    CASE tag = Tag.ImageryLayer -> "ImageryLayer"
      [] tag \in {Tag.KMLLayer, Tag.KML} -> "KMLLayer"
      [] tag \in {Tag.TileLayer, Tag.ArcGISTiledMapServiceLayer} -> "TileLayer"
      [] tag \in {Tag.MapImageLayer, Tag.ArcGISDynamicMapServiceLayer} -> "MapImageLayer"
      [] tag = Tag.VectorTileLayer -> "VectorTileLayer"
      [] tag = Tag.WMS -> "WMS"
      [] tag = Tag.WebTiledLayer -> "WebTiledLayer"
      [] tag = Tag.GeoRSS -> "GeoRSS"
      [] tag = Tag.GeoJSON -> "GeoJSON"
      [] tag = Tag.CSV -> "CSV"
      [] tag = Tag.SceneLayer -> "SceneLayer"
      [] tag = Tag.PointCloudLayer -> "PointCloudLayer"
      [] tag = Tag.IntegratedMeshLayer -> "IntegratedMeshLayer"
      [] tag = Tag.BuildingSceneLayer -> "BuildingSceneLayer"
      [] tag \in {Tag.FeatureLayer, Tag.Feature_Layer} -> "FeatureLayer"

\* C8 as stated: a type that equals a known tag up to letter case, or is a
\* legacy name, takes the handler of that tag, before any later test.
C8_CaseAndLegacyTolerant ==
    [][\A i \in DOMAIN requests : \A tag \in KnownTags :
          (DispatchStep(i) /\ "type" \in requests[i].desc.has
                /\ SameIgnoringCase(requests[i].desc.type, tag))
              => requests'[i].branch = HandlerOf(tag)]_vars

\* C8 as amended: a type that equals a known tag exactly, legacy names
\* included, takes the handler of that tag even when the descriptor also has a
\* featureSet; any other type, one that differs from a tag only by letter case
\* included, matches no tag and falls through to the featureSet test.
C8_ExactAndLegacyMatch ==
    [][\A i \in DOMAIN requests :
          DispatchStep(i)
              => /\ \A tag \in KnownTags :
                       ("type" \in requests[i].desc.has /\ requests[i].desc.type = tag)
                           => requests'[i].branch = HandlerOf(tag)
                 /\ ("type" \notin requests[i].desc.has
                        \/ requests[i].desc.type \notin KnownTags)
                       => requests'[i].branch =
                              (IF "featureSet" \in requests[i].desc.has
                               THEN "featureSet" ELSE "unsupported")]_vars

\* a descriptor with the legacy type ArcGISTiledMapServiceLayer and a featureSet
\* resolved a TileLayer
C8_Witness ==
    \E i \in DOMAIN requests :
        /\ requests[i].desc.type = Tag.ArcGISTiledMapServiceLayer
        /\ "featureSet" \in requests[i].desc.has
        /\ requests[i].pc = "resolved"
        /\ requests[i].layer.kind = "TileLayer"

\* C9: a descriptor with no type tag and a featureSet (and its layerDefinition)
\* resolves, unless renderer inference fails, a FeatureLayer built from the
\* featureSet and tagged with the correlation id, the options field being
\* optional; a descriptor with neither a type tag nor a featureSet is rejected
\* as unsupported.
C9_FeatureSetPathResolves ==
    \A i \in DOMAIN requests :
        /\ (/\ HasNoType(requests[i])
            /\ {"featureSet", "layerDefinition"} \subseteq requests[i].desc.has
            /\ requests[i].pc \in {"resolved", "rejected"}
            /\ requests[i].err \notin {"loadModules", "inferRenderer"})
              => /\ requests[i].pc = "resolved"
                 /\ requests[i].layer.kind = "FeatureLayer"
                 /\ requests[i].layer.source = "featureSet"
                 /\ requests[i].layer.id = requests[i].desc._hashFromPython
        /\ (/\ HasNoType(requests[i])
            /\ "featureSet" \notin requests[i].desc.has
            /\ HasDispatched(requests[i]))
              => RejectedAsUnsupported(requests[i])

\* C10: once the modules are loaded, a descriptor of type 'TileLayer' resolves
\* a TileLayer of its url whose id is its _hashFromPython, with or without a
\* renderer, an options or a featureSet field.
C10_TileLayerResolves ==
    \A i \in DOMAIN requests :
        (/\ "type" \in requests[i].desc.has
         /\ requests[i].desc.type = Tag.TileLayer
         /\ HasDispatched(requests[i]))
            => /\ requests[i].pc = "resolved"
               /\ requests[i].layer.kind = "TileLayer"
               /\ requests[i].layer.url = requests[i].desc.url
               /\ requests[i].layer.id = requests[i].desc._hashFromPython

\* a 'TileLayer' descriptor with neither renderer nor options resolved its layer
C10_Witness ==
    \E i \in DOMAIN requests :
        /\ requests[i].desc.type = Tag.TileLayer
        /\ "type" \in requests[i].desc.has
        /\ requests[i].desc.has \cap {"renderer", "options"} = {}
        /\ requests[i].pc = "resolved"
        /\ requests[i].layer.kind = "TileLayer"

\* C11: the promise of every request settles once and keeps its outcome; it
\* resolves from a pending FeatureLayer load or renderer inference only when
\* that operation succeeded (the resolved layer carries the inferred renderer),
\* and a failed load or inference rejects it with that failure.
C11_SettlesWithUnderlyingOutcome ==
    [][\A i \in DOMAIN requests :
          /\ requests[i].pc \in {"resolved", "rejected"}
                => (requests'[i].pc = requests[i].pc
                        /\ requests'[i].layer = requests[i].layer
                        /\ requests'[i].err = requests[i].err)
          /\ (requests[i].pc = "inferRenderer" /\ requests'[i].pc = "resolved")
                => requests'[i].layer.renderer = "inferred"
          /\ (requests[i].pc = "inferRenderer" /\ requests'[i].pc = "rejected")
                => requests'[i].err = "inferRenderer"
          /\ (requests[i].pc = "load" /\ requests'[i].pc = "rejected")
                => requests'[i].err = "layerLoad"]_vars

\* C15: the handler of change:_portal_token does not set _portal_token: after
\* the Python side sets the attribute to t and the handler has run, the store
\* still holds t (so the one mutation invoked the handler once).
C15_HandlerLeavesItsAttribute ==
    [][\A t \in {"", "tok"} :
          (started /\ set_portal_token(t)) => model'._portal_token = t]_vars

----------------------------------------------------------------------------
(* The error sink *)

\* a failed heading load is reported while (empty = TRUE) no message is
\* displayed, or while one is
HeadingFailureReported(empty) ==
    \E l \in widget.loads :
        /\ l.fn = "apply_heading_to_view"
        /\ (widget.errorTextBox = Message.NoMessage) = empty
        /\ load_catch(l)

\* the Python side hands m over for display
CustomMessageReported(m, empty) ==
    /\ m # Message.NoMessage
    /\ (widget.errorTextBox = Message.NoMessage) = empty
    /\ store_set("_custom_msg", m)

\* C12, as stated: a report made while no message is displayed puts the
\* reported message itself, unchanged, into the message area.
C12_FirstShownVerbatim ==
    [][/\ HeadingFailureReported(TRUE) => widget'.errorTextBox = Message.ErrHeading
       /\ \A m \in ValuesOf._custom_msg :
             CustomMessageReported(m, TRUE) => widget'.errorTextBox = m]_vars

\* C12: a report made while no message is displayed is shown with the
\* browser-console hint appended, unless the caller turned the hint off, in
\* which case it is shown unchanged; a report made while a message is
\* displayed replaces the content with the multiple-messages notice and
\* writes the displaced message (unless it is that notice) and the new
\* message, in the form they are displayed, to the console; the console
\* never loses a line.
C12_FirstShownSecondCoalesced ==
    [][/\ HeadingFailureReported(TRUE)
             => widget'.errorTextBox = Append(Message.ErrHeading, Message.ConsoleHint)
       /\ \A m \in ValuesOf._custom_msg :
             CustomMessageReported(m, TRUE) => widget'.errorTextBox = m
       /\ \A shown \in {Append(Message.ErrHeading, Message.ConsoleHint)} \cup ValuesOf._custom_msg :
             (\/ shown = Append(Message.ErrHeading, Message.ConsoleHint) /\ HeadingFailureReported(FALSE)
              \/ shown \in ValuesOf._custom_msg /\ CustomMessageReported(shown, FALSE))
             => /\ widget'.errorTextBox = Message.multiple_messages_info
                /\ MessageBoxLine(shown) \in widget'.console
                /\ widget.errorTextBox # Message.multiple_messages_info
                      => MessageBoxLine(widget.errorTextBox) \in widget'.console
       /\ widget.console \subseteq widget'.console]_vars

\* two reports were made: the notice is displayed and both messages are in
\* the console
C12_TwoReportsCoalesced ==
    /\ widget.errorTextBox = Message.multiple_messages_info
    /\ MessageBoxLine(Append(Message.ErrHeading, Message.ConsoleHint)) \in widget.console
    /\ \E m \in ValuesOf._custom_msg \ {Message.NoMessage} : MessageBoxLine(m) \in widget.console

\* C13: no promise rejection of a chain the view started is left without a
\* handler, and no promise stays pending after its underlying operation
\* failed.
C13_NoUnhandledFailure ==
    /\ widget.unhandled = {}
    /\ widget.httpGet # "pendingForever"

----------------------------------------------------------------------------
(* The attribute bridge *)

\* the stationary callback of view v runs: it is set up by the first pointer
\* move, or the watched view comes to rest
StationaryCallbackRuns(v) ==
    \/ pointer_move(v)
    \/ widget[v].stationaryWatch /\ \E n \in DOMAIN Snapshot : view_moves(v, Snapshot[n])
    \/ view_stationary(v)

\* a callback driven by the surface runs
SurfaceCallbackRuns ==
    \/ \E v \in ViewNames : view_when(v)
    \/ \E v \in ViewNames : StationaryCallbackRuns(v)
    \/ \E values \in {<<>>, <<"start">>, <<"start", "end">>} : time_slider_values_changed(values)

\* C14: no change handler is registered for a _readonly_* attribute; a
\* callback driven by the surface (view ready, stationary, time-slider
\* values) writes the view's valid values to the _readonly_* attributes and
\* leaves nothing uncommitted when it returns.
C14_SurfaceChangeCommitted ==
    [][/\ DOMAIN widget'.handlers \cap {"_readonly_zoom", "_readonly_scale", "_readonly_rotation", "_readonly_heading", "_readonly_tilt", "_readonly_extent", "_readonly_center", "_readonly_start_time", "_readonly_end_time"} = {}
       /\ SurfaceCallbackRuns => widget'.unsaved = {}
       /\ \A v \in ViewNames :
             view_when(v) => /\ widget'.attrs._readonly_extent = widget[v].extent
                             /\ widget'.attrs._readonly_center = widget[v].center
       /\ \A v \in ViewNames :
             StationaryCallbackRuns(v) =>
                LET view == widget'[v]
                IN  /\ view.zoom >= 0 => widget'.attrs._readonly_zoom = view.zoom
                    /\ view.scale >= 1 => widget'.attrs._readonly_scale = view.scale
                    /\ view.center.class # "null"
                          => widget'.attrs._readonly_center = JSONClone(view.center)
                    /\ view.extent.class # "null"
                          => widget'.attrs._readonly_extent = JSONClone(view.extent)
       /\ \A values \in {<<>>, <<"start">>, <<"start", "end">>} :
             (time_slider_values_changed(values) /\ Len(values) >= 1)
                => widget'.attrs._readonly_start_time = ToISOString(values[1])]_vars

\* the stationary callback has reported the zoom and the centre of a view
\* that was moved
C14_MovedViewReported ==
    /\ widget._MapView.stationaryWatch
    /\ widget.attrs._readonly_zoom = Snapshot.Moved.zoom
    /\ widget.attrs._readonly_center = JSONClone(Snapshot.Moved.center)
    /\ widget.unsaved = {}

\* C16: once _center has been set to a point from the store side and nothing
\* is pending, the view holds that point and _readonly_center reads it back,
\* also when the user has not yet touched the map.
C16_CenterRoundTrip ==
    \A v \in ViewNames :
        (/\ v = widget.activeView
         /\ widget[v].pointerMoveHandler
         /\ events.moves = 0
         /\ widget.loads = {}
         /\ HasXY(widget.attrs._center))
        => /\ widget[v].center = PointOf("Point", widget.attrs._center.x, widget.attrs._center.y)
           /\ JSONClone(widget.attrs._readonly_center) = JSONClone(widget.attrs._center)

\* C17: when _zoom is set, and when zoom_changed runs as the view becomes
\* ready, the view's zoom becomes _zoom if _zoom >= 0 and is left as it was
\* otherwise; when _scale is set, the view's scale becomes _scale if
\* _scale >= 1 and is left as it was otherwise, so also for a scale of 0.
C17_SentinelNotForwarded ==
    [][/\ \A zoom \in ValuesOf._zoom :
             store_set("_zoom", zoom)
                => widget'[widget.activeView].zoom =
                      IF zoom >= 0 THEN zoom ELSE widget[widget.activeView].zoom
       /\ \A v \in ViewNames :
             view_when(v)
                => widget'[v].zoom =
                      IF widget.attrs._zoom >= 0 THEN widget.attrs._zoom
                      ELSE widget[v].zoom
       /\ \A scale \in ValuesOf._scale :
             store_set("_scale", scale)
                => widget'[widget.activeView].scale =
                      IF scale >= 1 THEN scale ELSE widget[widget.activeView].scale]_vars

\* _scale was set to 0 and the ready view kept its scale
C17_ZeroScaleLeftOut ==
    /\ widget.attrs._scale = 0
    /\ widget._MapView.ready
    /\ widget._MapView.scale = Home(NewView).scale

\* C18: a value written to _readonly_zoom or to _readonly_scale is the zoom,
\* or the scale, the active view holds once the write is done.
C18_ReadonlyIsLiveValue ==
    [][/\ widget'.attrs._readonly_zoom # widget.attrs._readonly_zoom
             => widget'.attrs._readonly_zoom = widget'[widget'.activeView].zoom
       /\ widget'.attrs._readonly_scale # widget.attrs._readonly_scale
             => widget'.attrs._readonly_scale = widget'[widget'.activeView].scale]_vars

\* C19: a stationary callback leaves _readonly_zoom as it was when the
\* view's zoom is negative, _readonly_scale when the scale is below 1,
\* _readonly_center and _readonly_extent when the centre or the extent is
\* null, _readonly_rotation and _readonly_heading when the MapView's rotation
\* is negative, and _readonly_heading, _readonly_rotation and _readonly_tilt
\* when the SceneView has no camera; it reports nothing to the error sink and
\* leaves nothing uncommitted.
C19_InvalidValueIgnored ==
    [][\A v \in ViewNames :
          StationaryCallbackRuns(v) =>
             LET view == widget'[v]
                 old == widget.attrs
                 new == widget'.attrs
             IN  /\ view.zoom < 0 => new._readonly_zoom = old._readonly_zoom
                 /\ view.scale < 1 => new._readonly_scale = old._readonly_scale
                 /\ view.center.class = "null"
                       => new._readonly_center = old._readonly_center
                 /\ view.extent.class = "null"
                       => new._readonly_extent = old._readonly_extent
                 /\ (v = "_MapView" /\ view.rotation < 0)
                       => /\ new._readonly_rotation = old._readonly_rotation
                          /\ new._readonly_heading = old._readonly_heading
                 /\ (v = "_SceneView" /\ ~view.camera.exists)
                       => /\ new._readonly_heading = old._readonly_heading
                          /\ new._readonly_rotation = old._readonly_rotation
                          /\ new._readonly_tilt = old._readonly_tilt
                 /\ widget'.errorTextBox = widget.errorTextBox
                 /\ widget'.console = widget.console
                 /\ widget'.unsaved = {}]_vars

\* the stationary callback ran on a view in transition and the zoom reported
\* before is still in the store
C19_TransitionalValuesSkipped ==
    /\ widget._MapView.stationaryWatch
    /\ widget._MapView.zoom = Snapshot.Transitional.zoom
    /\ widget._MapView.center = Snapshot.Transitional.center
    /\ widget.attrs._readonly_zoom = 2
    /\ widget.attrs._readonly_center.class # "null"
    /\ widget.errorTextBox = Message.NoMessage

----------------------------------------------------------------------------
(* The initial load *)

\* the positions of fn among the functions update_widget_from_model has called
CalledAt(fn) == {i \in DOMAIN widget.loadSteps : widget.loadSteps[i] = fn}
\* every call of a function of fns comes before every call of one of gns
CalledBefore(fns, gns) ==
    \A f \in fns, g \in gns : \A i \in CalledAt(f), j \in CalledAt(g) : i < j
DrawStateSteps ==
    {"mode_changed", "basemap_changed", "zoom_changed", "scale_changed",
     "rotation_changed", "heading_changed", "tilt_changed", "center_changed",
     "extent_changed"}
LayerSteps ==
    {"draw_these_notype_layers_on_widget_load", "draw_these_graphics_on_widget_load",
     "overlay_these_images_on_widget_load"}
WebSteps == {"webmap_changed", "webscene_changed"}

----------------------------------------------------------------------------
(* Properties of the triggers, the outbound events and the write-only attributes *)

\* the trigger attributes whose action runs in the change handler itself
SyncTriggers == {"_trigger_screenshot_with_args", "_trigger_new_jlab_window_with_args"}

\* C21: an action of a trigger attribute (a webscene save, a screenshot
\* capture, a sketch, a window move) is invoked once at a time and only while
\* the attribute holds a non-empty value; a change of the attribute to '' or
\* {} invokes none, and a change to a non-empty value invokes the action once
\* when the handler runs it itself, or starts one module load for it.
C21_TriggersOneShot ==
    [][LET empty == AttrDefaults("2D", "", <<>>)
       IN  /\ \A attr \in DOMAIN widget.invoked :
                widget'.invoked[attr] # widget.invoked[attr]
                   => /\ widget'.invoked[attr] = widget.invoked[attr] + 1
                      /\ widget'.attrs[attr] # empty[attr]
           /\ \A attr \in DOMAIN widget.invoked : \A v \in SignalsOf[attr] :
                store_set(attr, v)
                   => IF v = empty[attr] THEN widget'.invoked = widget.invoked
                      ELSE IF attr \in SyncTriggers
                      THEN widget'.invoked[attr] = widget.invoked[attr] + 1
                      ELSE /\ widget'.invoked = widget.invoked
                           /\ widget'.promises = widget.promises + 1]_vars

\* the event a click at mapPoint sends
MouseClick(mapPoint) == [event |-> "mouseclick", message |-> mapPoint]

C23_PushFailureReported ==
    [][\A l \in widget.loads :
          (/\ l.fn \in {"apply_heading_to_view", "apply_tilt_to_view",
                        "apply_extent_to_view", "projection.load"}
           /\ load_catch(l))
             => /\ widget'.unhandled = widget.unhandled
                /\ <<widget'.errorTextBox, widget'.console>>
                      # <<widget.errorTextBox, widget.console>>]_vars

\* C24: handling a change of a _link_writeonly_* attribute pushes the value to
\* the surface (the rotation at once, the others through the promise chain of
\* apply_heading_to_view, apply_tilt_to_view or apply_extent_to_view) and
\* leaves every other attribute of the store as it was, with nothing set and
\* nothing saved, when the handler runs and when its chain settles
C24_WriteOnlyOneDirectional ==
    [][/\ \A attr \in {"_link_writeonly_rotation", "_link_writeonly_heading",
                       "_link_writeonly_tilt", "_link_writeonly_extent"} :
          \A v \in SignalsOf[attr] :
            store_set(attr, v)
               => /\ widget'.attrs = [widget.attrs EXCEPT ![attr] = v]
                  /\ widget'.unsaved = widget.unsaved
                  /\ CASE attr = "_link_writeonly_rotation" -> widget'._MapView.rotation = v
                       [] attr = "_link_writeonly_heading" ->
                            \E l \in widget'.loads : l.fn = "apply_heading_to_view" /\ l.angle = v
                       [] attr = "_link_writeonly_tilt" ->
                            \E l \in widget'.loads : l.fn = "apply_tilt_to_view" /\ l.angle = v
                       [] attr = "_link_writeonly_extent" ->
                            \E l \in widget'.loads : l.fn = "apply_extent_to_view" /\ l.extent = v
       /\ \A l \in widget.loads :
            (/\ l.fn \in {"apply_heading_to_view", "apply_tilt_to_view",
                          "apply_extent_to_view", "projection.load"}
             /\ load_then(l) \/ load_catch(l))
               => /\ widget'.attrs = widget.attrs
                  /\ widget'.unsaved = widget.unsaved]_vars

\* the linked rotation and the linked heading have reached the views, and the
\* store still holds the defaults of their counterparts
C24_Witness ==
    /\ widget.attrs._link_writeonly_rotation = 90
    /\ widget._MapView.rotation = 90
    /\ widget.attrs._readonly_rotation = 0
    /\ widget.attrs._rotation = 0
    /\ widget.attrs._link_writeonly_heading = 90
    /\ widget._SceneView.camera.exists
    /\ widget._SceneView.camera.heading = 90
    /\ widget.attrs._readonly_heading = 0
    /\ widget.attrs._heading = 0

\* what get_portal_token() returns on the views that have been rendered
TokensReturned ==
    (IF started THEN {get_portal_token} ELSE {})
       \cup (IF widget.sibling.started THEN {sibling_get_portal_token} ELSE {})

\* C25: once a view handles the token, the attribute _portal_token of the
\* model is empty; when the Python side supplies a non-empty token, every
\* rendered view of the widget returns it from get_portal_token() from then on,
\* and a view rendered later returns what the others return, or what the model
\* held when it is the first
C25_TokenKeptOutOfModel ==
    [][/\ (started' \/ widget'.sibling.started) => model'._portal_token = ""
       /\ \A t \in {"tok", "tok2"} :
            (/\ started \/ widget.sibling.started
             /\ set_portal_token(t) \/ sibling_set_portal_token(t))
               => TokensReturned' = {t}
       /\ ~(\E t \in {"tok", "tok2"} : set_portal_token(t) \/ sibling_set_portal_token(t))
             => TokensReturned' \subseteq (IF TokensReturned # {} THEN TokensReturned
                                           ELSE {model._portal_token})]_vars

\* both views are rendered, the second token supplied is what both return, and
\* this view never held a token of its own
C25_Witness ==
    /\ started
    /\ widget.sibling.started
    /\ model._portal_token = ""
    /\ _portalToken = Undefined
    /\ widget.sibling._portalToken = "tok2"
    /\ TokensReturned = {"tok2"}
    /\ \E c \in DOMAIN calls : calls[c].pc = "resolved"

\* C26: the portal an authenticate_to_portal() promise resolves with is loaded
\* at the moment the promise resolves, however the calls overlap
C26_ResolvedPortalLoaded ==
    [][\A c \in DOMAIN calls :
          (calls[c].pc # "resolved" /\ calls'[c].pc = "resolved")
             => portals'[calls'[c].result].loaded]_vars

\* C27: no resolution of a layer begins before the first
\* authenticate_to_portal() has resolved, also when _add_this_notype_layer
\* changes while that authentication is pending
C27_NothingResolvedBeforeAuth ==
    [][Len(requests') > Len(requests) => calls[1].pc = "resolved"]_vars

\* C28: while the message area is not cleared it keeps the first reported
\* message until a further report replaces it with the multiple-messages
\* notice, which then stays; the displaced message and every later one are
\* written to the console, which never loses a line and never holds the notice
C28_NoMessageLost ==
    [][/\ widget.errorTextBox # Message.NoMessage
             => widget'.errorTextBox \in {widget.errorTextBox, Message.multiple_messages_info}
       /\ widget'.errorTextBox # widget.errorTextBox
             => IF widget.errorTextBox = Message.NoMessage
                THEN widget'.console = widget.console
                ELSE MessageBoxLine(widget.errorTextBox) \in widget'.console
       /\ \A e \in BOOLEAN :
            /\ HeadingFailureReported(e)
                  => \/ widget'.errorTextBox = Append(Message.ErrHeading, Message.ConsoleHint)
                     \/ MessageBoxLine(Append(Message.ErrHeading, Message.ConsoleHint))
                           \in widget'.console
            /\ \A m \in ValuesOf._custom_msg :
                  CustomMessageReported(m, e)
                     => widget'.errorTextBox = m \/ MessageBoxLine(m) \in widget'.console
       /\ widget.console \subseteq widget'.console
       /\ MessageBoxLine(Message.multiple_messages_info) \notin widget'.console]_vars

\* three reports were made: the notice is displayed, the three messages are in
\* the console and the notice is not
C28_Witness ==
    /\ widget.errorTextBox = Message.multiple_messages_info
    /\ \A m \in ValuesOf._custom_msg \ {Message.NoMessage} : MessageBoxLine(m) \in widget.console
    /\ MessageBoxLine(Append(Message.ErrHeading, Message.ConsoleHint)) \in widget.console
    /\ MessageBoxLine(Message.multiple_messages_info) \notin widget.console

\* w has the attribute 'ready' set only with the initial load resolved and a
\* view ready, and has no click, pointer or stationary callback after a failed
\* initial load
ReadyOnlyWhenLoaded(w) ==
    /\ w.attrs.ready => /\ w.loadPromise = "resolved"
                        /\ \E v \in ViewNames : w[v].ready
    /\ w.loadPromise = "rejected"
          => /\ ~w.attrs.ready
             /\ \A v \in ViewNames : /\ ~w[v].clickHandler
                                     /\ ~w[v].pointerMoveHandler
                                     /\ ~w[v].stationaryWatch

C30_ResolutionRepeatable ==
    \A i, j \in DOMAIN requests :
        (i < j /\ HasDispatched(requests[i]) /\ HasDispatched(requests[j]))
           => /\ requests[j].branch = requests[i].branch
              /\ requests[j].desc = requests[i].desc
              /\ (requests[i].pc = "resolved" /\ requests[j].pc = "resolved")
                    => /\ requests[j].layer.kind = requests[i].layer.kind
                       /\ requests[j].layer.id = requests[i].layer.id

----------------------------------------------------------------------------
(* Properties of the extent, the layers and the maps of the view *)

\* C39: apply_extent_to_view forwards an extent to the active view exactly
\* when it is set: when the callback of its module load runs, the extent of
\* the active view becomes the given extent if the extent record defines xmin,
\* ymin, xmax and ymax (an xmin of 0 included), and the empty extent {} is not
\* forwarded
C39_SetExtentForwarded ==
    [][\A l \in widget.loads :
          l.fn = "apply_extent_to_view" /\ load_then(l) =>
              /\ l.extent.class = "Object" =>
                    widget'[widget.activeView].extent = Extent(l.extent)
              /\ l.extent.class = "{}" =>
                    widget'[widget.activeView].extent = widget[widget.activeView].extent]_vars

\* C34: after tryRemoveImageOverlays(ids) the collection of the layer has no
\* overlay whose id is among ids, adjacent matches included, and the other
\* overlays are kept in their order
C34_OverlaysRemoved ==
    [][\A l \in widget.loads :
          l.fn = "image_overlays_to_remove_changed" /\ load_then(l) =>
              LET i == findLayerById(widget.map.layers, imageOverlayLayerId)
                  listed(id) == \E k \in DOMAIN l.args : l.args[k] = id
                  unlisted(id) == ~listed(id)
              IN  widget'.map.layers[i].items =
                      SelectSeq(widget.map.layers[i].items, unlisted)]_vars

\* C31: layers_to_remove_changed ends with a current map that has no layer
\* whose id is listed in _layers_to_remove, every duplicate removed, and that
\* keeps the layers that are not listed, in their order; a listed id that no
\* layer has changes nothing and shows no error
C31_ListedLayersRemoved ==
    [][\A ids \in MapValuesOf._layers_to_remove :
          store_set("_layers_to_remove", ids) =>
              LET unlisted(layer) == \A k \in DOMAIN ids : ids[k] # layer.id
              IN  /\ widget'.map.layers = SelectSeq(widget.map.layers, unlisted)
                  /\ widget'.errorTextBox = widget.errorTextBox]_vars

\* two layers with the id w1 and one with another id were on the map when
\* the list (w1, x) was processed: the other layer is what is left
C31_Witness ==
    /\ widget.attrs._layers_to_remove = <<"w1", "x">>
    /\ widget.attrs._webmap.keys # {}
    /\ widget.loads = {}
    /\ Len(widget.map.layers) = 1
    /\ widget.map.layers[1].id = "w2"
    /\ widget.errorTextBox = Message.NoMessage

\* C32: once layers_to_remove_changed has processed the id of a layer that
\* add_notype_layer was resolving, and every resolution has settled, the
\* current map has no layer with that id
C32_RemovedLayerStaysRemoved ==
    (widget.loads = {} /\ \A i \in DOMAIN requests : i \in widget.added) =>
        \A i \in DOMAIN requests : \A k \in DOMAIN widget.attrs._layers_to_remove :
            widget.attrs._layers_to_remove[k] = requests[i].desc._hashFromPython =>
                \A j \in DOMAIN widget.map.layers :
                    widget.map.layers[j].id # requests[i].desc._hashFromPython

\* the layers of the current map that have the id
LayersWithId(w, id) == {i \in DOMAIN w.map.layers : w.map.layers[i].id = id}

\* C33: the current map has at most one layer with graphicsLayerId and at most
\* one with imageOverlayLayerId, whatever add_graphic, interactive_draw_shape,
\* overlay_this_image and image_overlays_to_remove_changed did, and add_graphic
\* puts its graphic after the graphics that layer already had
C33_OneLayerOfEachKind ==
    [][/\ \A id \in {graphicsLayerId, imageOverlayLayerId} :
             Cardinality(LayersWithId(widget', id)) <= 1
       /\ \A l \in widget.loads :
             l.fn = "add_graphic" /\ load_then(l) =>
                 LET before == LayersWithId(widget, graphicsLayerId)
                     graphics == IF before = {} THEN <<>>
                                 ELSE widget.map.layers[CHOOSE i \in before : TRUE].items
                 IN  \E i \in DOMAIN widget'.map.layers :
                        /\ widget'.map.layers[i].id = graphicsLayerId
                        /\ widget'.map.layers[i].items = Append(graphics, l.args[1])]_vars

\* two graphics were added one after the other and are on the same layer,
\* the only one with graphicsLayerId
C33_Witness ==
    \E i \in DOMAIN widget.map.layers :
        /\ widget.map.layers[i].id = graphicsLayerId
        /\ Len(widget.map.layers[i].items) = 2
        /\ Cardinality(LayersWithId(widget, graphicsLayerId)) = 1

\* C35: when the callback of mode_changed has run, the active view is the
\* SceneView exactly when mode is 3d in whatever case, it has the container and
\* displays this.map, a new map with the ground, the basemap and the layers of
\* the map before, which no other view displays; the other view has no map
C35_ModeSwitchKeepsMap ==
    [][\A l \in widget.loads :
          l.fn = "mode_changed" /\ load_then(l) =>
              LET active == widget'.activeView
                  other == IF active = "_SceneView" THEN "_MapView" ELSE "_SceneView"
              IN  /\ active = "_SceneView" <=> widget.attrs.mode \in {"3D", "3d"}
                  /\ widget'[active].container
                  /\ widget'[active].map = "this"
                  /\ widget'[other].map = "null"
                  /\ widget'.map.class = IF active = "_SceneView" THEN "WebScene" ELSE "WebMap"
                  /\ widget'.map.ground = widget.map.ground
                  /\ widget'.map.basemap = widget.map.basemap
                  /\ widget'.map.layers = widget.map.layers]_vars

\* mode was changed twice and nothing else: the view is back in 2D and the
\* layer added before the changes is on the map of the MapView
C35_Witness ==
    /\ events.sets = 2
    /\ \A attr \in DOMAIN MapValuesOf \ {"mode"} : widget.attrs[attr] = LoadedWidget("2D").attrs[attr]
    /\ widget.attrs.mode = "2D"
    /\ widget.loads = {}
    /\ events.failures = 0
    /\ widget.activeView = "_MapView"
    /\ widget._MapView.map = "this"
    /\ widget.map.class = "WebMap"
    /\ \E i \in DOMAIN widget.map.layers : widget.map.layers[i].id = Hashes[1]

\* every load, authentication and layer resolution the handlers started is over
HandlersSettled ==
    /\ widget.loads = {}
    /\ \A i \in DOMAIN requests : i \in widget.added

\* C36: once every handler has settled, the active view displays this.map,
\* the map layers and graphics are added to, after any mode changes, web maps
\* and web scenes
C36_ActiveViewDisplaysCurrentMap ==
    HandlersSettled => widget[widget.activeView].map = "this"

\* the ids of a sequence of layers, or of entries of the read-only web map
IdsOf(layers) == [i \in DOMAIN layers |-> layers[i].id]

\* C40: whenever the layers of the current map change, be it by a layer added
\* or removed or by a web map or web scene taking the place of the map,
\* _readonly_webmap_from_js is committed with one entry for each layer of the
\* current map, in their order
C40_ReadonlyWebmapFollowsMap ==
    [][IdsOf(widget'.map.layers) # IdsOf(widget.map.layers) =>
          /\ IdsOf(widget'.attrs._readonly_webmap_from_js.layers)
                = IdsOf(widget'.map.layers)
          /\ "_readonly_webmap_from_js" \notin widget'.unsaved]_vars

\* C38: whenever time_slider is set and the handlers have settled, the mode of
\* the slider is time_mode and the values of the slider, when it has any, are
\* one in the instant and cumulative modes and two in time-window, in whatever
\* order time_slider and time_mode were set
C38_SliderFollowsTimeMode ==
    (widget.attrs.time_slider /\ HandlersSettled) =>
        /\ widget._time_slider.mode = widget.attrs.time_mode
        /\ Len(widget._time_slider.values) > 0 =>
              Len(widget._time_slider.values)
                  = IF widget.attrs.time_mode = "time-window" THEN 2 ELSE 1

\* the exchange is over: _center is the center the active view made of one of
\* the lists, _center_long_lat is empty, both are saved, and no load and no
\* callback is left that could convert again
CenterConverted ==
    /\ widget.attrs._center_long_lat = <<>>
    /\ widget.attrs._center = JSONClone(widget[widget.activeView].center)
    /\ widget.attrs._center \in {JSONClone(FromLongLat(c)) : c \in LongLats}
    /\ widget.unsaved = {}
    /\ widget.loads = {}
    /\ \A v \in ViewNames : ~widget[v].centerWatch

=============================================================================
